---- MODULE Spec2Model ----
(***************************************************************************)
(* Model of the report bot: the persisted conversation state               *)
(* (database.py, state_manager.py), the report wizard (bot.py), the admin  *)
(* modules (admin/ban.py, admin/gong.py, admin/trains.py) and the serving  *)
(* loop with its keepalive thread and sweep of stale records (main.py).    *)
(*                                                                         *)
(* Texts typed by a user are sequences of one-character strings, so that   *)
(* strip(), len(), isdigit() and lower() are computed, not assumed.        *)
(* Button payloads and stored answers that the code only copies are plain  *)
(* strings or such sequences, one type per key.                            *)
(***************************************************************************)
EXTENDS Integers, Sequences, FiniteSets, TLC

VARIABLES
    user_states,    \* table user_states: user_id -> [state_data, updated_at]
    now,            \* the clock read by CURRENT_TIMESTAMP and datetime('now')
    banned,         \* table banned_users: rows (user_id, reason)
    th,             \* the worker threads: the handler each one runs
    intact,         \* history: per user, no record of the user was swept
                    \*   since the user last entered the wizard
    delivered,      \* history: per user, the reports delivered to the
                    \*   channel since the user last entered the wizard
    written,        \* history: per user, the last value written for each key
                    \*   since the record was last deleted
    last,           \* history: the last StateManager call and what it found,
                    \*   or the last admin handler and what it sent
    calls,          \* history: the number of calls the worker threads took up
    users,          \* table users: user_id -> [username, first_name, created_at]
    gong,           \* the broadcast of admin/gong.py: its text, its buttons
                    \*   and its run
    trains,         \* table trains: the names, in the order of their ids
    editing_users,  \* admin/trains.py: the admins asked for a new list
    main,           \* main.py: the serving loop and the keepalive thread
    runs            \* the deliveries of the confirm callback of the
                    \*   broadcast shown, and the run each one has started

\* What the wizard and the engine leave alone.
beside == <<trains, editing_users, main, runs>>

vars == <<user_states, now, banned, th, intact, delivered, written, last, calls,
          users, gong, trains, editing_users, main, runs>>

(***************************************************************************)
(* Bounds of the model.                                                    *)
(***************************************************************************)
MaxTime == 2                \* the clock runs 0..MaxTime
MaxCalls == 4               \* calls taken up by the two racing threads

Users == {1}

\* main.py, TeleBot(threaded=True, num_threads=4): handlers run on a pool of
\* worker threads; two of them are enough for every interleaving of two calls.
Threads == {1, 2}

(***************************************************************************)
(* config.py (not part of the sources at hand): the enumeration States     *)
(* and the staleness timeout, in clock units.                              *)
(***************************************************************************)
IDLE == "IDLE"
LINE == "LINE"
TRAIN == "TRAIN"
TRAIN_MANUAL == "TRAIN_MANUAL"
STATION == "STATION"
DIRECTION == "DIRECTION"
TIME == "TIME"
ROUTE_CHOICE == "ROUTE_CHOICE"
ROUTE_MANUAL == "ROUTE_MANUAL"
COMMENT == "COMMENT"
CONFIRM == "CONFIRM"

States == {IDLE, LINE, TRAIN, TRAIN_MANUAL, STATION, DIRECTION, TIME,
           ROUTE_CHOICE, ROUTE_MANUAL, COMMENT, CONFIRM}

\* config.STATE_TIMEOUT, in units of the model's clock
STATE_TIMEOUT == 1

(***************************************************************************)
(* Python values: None, dict, truthiness.                                  *)
(***************************************************************************)
None == [none |-> TRUE]

EmptyDict == [k \in {} |-> ""]

Truthy(d) == d # None /\ DOMAIN d # {}

\* d[k] = v
DictSet(d, k, v) == [x \in DOMAIN d \cup {k} |-> IF x = k THEN v ELSE d[x]]

\* d.update(updates)
DictUpdate(d, updates) ==
    [x \in DOMAIN d \cup DOMAIN updates |->
        IF x \in DOMAIN updates THEN updates[x] ELSE d[x]]

\* d.get(k, default)
DictGet(d, k, default) == IF k \in DOMAIN d THEN d[k] ELSE default

(***************************************************************************)
(* database.py: the table user_states.  Every method holds the lock for    *)
(* the whole call, so each is one atomic step.  state_data is stored as    *)
(* JSON text; a dict whose keys are strings and whose values are strings,  *)
(* integers or such dicts decodes to the dict that was encoded, so the     *)
(* table holds the dict.                                                   *)
(***************************************************************************)
\* INSERT OR REPLACE INTO user_states ... VALUES (?, ?, CURRENT_TIMESTAMP)
set_user_state(tbl, user_id, state_data, clock) ==
    [x \in DOMAIN tbl \cup {user_id} |->
        IF x = user_id
        THEN [state_data |-> state_data, updated_at |-> clock]
        ELSE tbl[x]]

\* SELECT state_data FROM user_states WHERE user_id = ?
get_user_state(tbl, user_id) ==
    IF user_id \in DOMAIN tbl THEN tbl[user_id].state_data ELSE None

\* DELETE FROM user_states WHERE user_id = ?
clear_user_state(tbl, user_id) ==
    [x \in DOMAIN tbl \ {user_id} |-> tbl[x]]

\* A sweep that also deletes the records exactly as old as the timeout.
cleanup_old_states_inclusive(tbl, minutes, clock) ==
    [x \in {y \in DOMAIN tbl : tbl[y].updated_at > clock - minutes} |-> tbl[x]]

\* DELETE FROM user_states WHERE datetime(updated_at) < datetime('now', '-minutes')
cleanup_old_states(tbl, minutes, clock) ==
    [x \in {y \in DOMAIN tbl : ~(tbl[y].updated_at < clock - minutes)} |-> tbl[x]]

(***************************************************************************)
(* state_manager.py.  Each mutator reads the record with one database      *)
(* call, changes the dict it got, and writes it back with a second call:   *)
(* the *_local operators are the part between the two calls.               *)
(***************************************************************************)
\* A get_state whose default is the first step of the wizard.
get_state_entered(tbl, user_id) ==
    LET state_data == get_user_state(tbl, user_id)
    IN  IF Truthy(state_data) THEN DictGet(state_data, "state", LINE) ELSE LINE

get_state(tbl, user_id) ==
    LET state_data == get_user_state(tbl, user_id)
    IN  IF Truthy(state_data) THEN DictGet(state_data, "state", IDLE) ELSE IDLE

\* state_data.get('data', {}) if state_data else {}
DataOf(state_data) ==
    IF Truthy(state_data) THEN DictGet(state_data, "data", EmptyDict)
    ELSE EmptyDict

get_data(tbl, user_id) == DataOf(get_user_state(tbl, user_id))

\* A set_state that writes a fresh dict: the answers are dropped.
set_state_local_fresh(got, state) == [state |-> state]

\* A set_state that resets the answers when the step does not change.
set_state_local_reset(got, state) ==
    IF Truthy(got) /\ DictGet(got, "state", IDLE) = state
    THEN [state |-> state]
    ELSE DictSet(IF Truthy(got) THEN got ELSE EmptyDict, "state", state)

set_state_local(got, state) ==
    LET current_data == IF Truthy(got) THEN got ELSE EmptyDict
    IN  DictSet(current_data, "state", state)

set_data_default(got) ==
    LET state_data == IF Truthy(got) THEN got
                      ELSE [state |-> IDLE, data |-> EmptyDict]
    IN  IF "data" \notin DOMAIN state_data
        THEN DictSet(state_data, "data", EmptyDict)
        ELSE state_data

set_data_local(got, key, value) ==
    LET state_data == set_data_default(got)
    IN  DictSet(state_data, "data", DictSet(state_data.data, key, value))

\* An update_data that replaces the answers by the updates.
update_data_local_replace(got, updates) ==
    DictSet(set_data_default(got), "data", updates)

update_data_local(got, updates) ==
    LET state_data == set_data_default(got)
    IN  DictSet(state_data, "data", DictUpdate(state_data.data, updates))

\* The calls run to completion with nothing in between.
set_state(tbl, user_id, state, clock) ==
    set_user_state(tbl, user_id,
                   set_state_local(get_user_state(tbl, user_id), state), clock)

set_data(tbl, user_id, key, value, clock) ==
    set_user_state(tbl, user_id,
                   set_data_local(get_user_state(tbl, user_id), key, value), clock)

update_data(tbl, user_id, updates, clock) ==
    set_user_state(tbl, user_id,
                   update_data_local(get_user_state(tbl, user_id), updates), clock)

clear_state(tbl, user_id) == clear_user_state(tbl, user_id)

(***************************************************************************)
(* The conversation state engine called by one caller at a time: every     *)
(* StateManager call runs to completion before the next one starts.  The   *)
(* sweep and the clock run beside it.                                      *)
(***************************************************************************)
EngineKeys == {"line", "train"}
EngineValues == {"a", "b"}
EngineUpdates ==
    UNION {[S -> EngineValues] : S \in SUBSET EngineKeys}

EmptyTable == [u \in {} |-> None]

\* A worker thread: the calls still to make (prog) and the dict the last
\* get_user_state returned to it (got).
\* The other fields are history: the handler the thread runs or ran last
\* (kind), whether it passed its step check (passed), the answers held when
\* it did (snap), the calls it then set out to make (plan), and the outcome
\* of a publish (attempts, success, reported).
IdleThread == [user_id |-> 0, prog |-> <<>>, got |-> None,
               kind |-> "none", passed |-> FALSE, snap |-> EmptyDict,
               plan |-> <<>>, attempts |-> 0, success |-> FALSE,
               reported |-> "none", tried |-> {}, lacking |-> FALSE]

\* The table users before anyone was sighted, and no broadcast run.
NoUsers == [id \in {} |-> ""]

NoBans == {}

\* The confirm button of the broadcast shown can be pressed MaxPresses
\* times before the handler of the first press replaces the message.
MaxPresses == 2

Deliveries == 1..MaxPresses

NoRuns == [d \in Deliveries |-> [st |-> "none"]]

\* No broadcast: no admin is asked for a text (waiting_for_text), no
\* message with the two buttons is shown (buttons), no run.  The rest is
\* history: the cancel button of the broadcast shown was pressed by an
\* admin (cancelled); it was pressed while the run was going on
\* (interrupted); who pressed the confirm button that began the run
\* (confirmed_by, 0 for no one).
NoGong == [running |-> FALSE, done |-> FALSE, waiting_for_text |-> {},
           buttons |-> FALSE, cancelled |-> FALSE, interrupted |-> FALSE,
           confirmed_by |-> 0]

\* database.py, _init_db: the default names of the table trains, here two of
\* them, which like the original ones are not in the order of their names.
DefaultTrains == << <<"B">>, <<"A">> >>

\* MetroBot.__init__ and the locals of run() as the serving loop is entered.
\* `serving` is where the main thread is: in infinity_polling ("polling"),
\* in the sleep before a restart ("waiting"), or past the loop ("stopped");
\* `keepalive` is the call the keepalive thread is at.
\* waits and returns are history: the waits made, the returns of polling.
NewMain == [running |-> TRUE, retry_count |-> 0, serving |-> "polling",
            waits |-> <<>>, returns |-> 0, keepalive |-> "sleep"]

\* The state after construction when the table user_states, which outlives
\* the process, holds tbl.
InitFrom(tbl) ==
    /\ user_states = tbl
    /\ now = 0
    /\ th = [t \in Threads |-> IdleThread]
    /\ banned = NoBans
    /\ intact = [u \in Users |-> u \in DOMAIN tbl]
    /\ delivered = [u \in Users |-> 0]
    /\ written = [u \in Users |-> IF u \in DOMAIN tbl
                                  THEN tbl[u].state_data.data ELSE EmptyDict]
    /\ last = [op |-> "none"]
    /\ calls = 0
    /\ users = NoUsers
    /\ gong = NoGong
    /\ trains = DefaultTrains
    /\ editing_users = {}
    /\ main = NewMain
    /\ runs = NoRuns

InitEngine == InitFrom(EmptyTable)

\* The record of the history kept for a user once the table is tbl.
WrittenAfter(w, tbl, user_id) ==
    IF user_id \in DOMAIN tbl THEN w ELSE EmptyDict

SetStep(user_id, state) ==
    /\ user_states' = set_state(user_states, user_id, state, now)
    /\ last' = [op |-> "set_state", user_id |-> user_id, state |-> state,
                before |-> get_user_state(user_states, user_id)]
    /\ UNCHANGED <<beside, users, gong, banned, intact, delivered, now, th, written, calls>>

SetField(user_id, key, value) ==
    /\ user_states' = set_data(user_states, user_id, key, value, now)
    /\ written' = [written EXCEPT ![user_id] = DictSet(@, key, value)]
    /\ last' = [op |-> "set_data", user_id |-> user_id, key |-> key,
                value |-> value,
                before |-> get_user_state(user_states, user_id)]
    /\ UNCHANGED <<beside, users, gong, banned, intact, delivered, now, th, calls>>

MergeFields(user_id, updates) ==
    /\ user_states' = update_data(user_states, user_id, updates, now)
    /\ written' = [written EXCEPT ![user_id] = DictUpdate(@, updates)]
    /\ last' = [op |-> "update_data", user_id |-> user_id,
                updates |-> updates,
                before |-> get_user_state(user_states, user_id)]
    /\ UNCHANGED <<beside, users, gong, banned, intact, delivered, now, th, calls>>

Clear(user_id) ==
    /\ user_states' = clear_state(user_states, user_id)
    /\ written' = [written EXCEPT ![user_id] = EmptyDict]
    /\ last' = [op |-> "clear_state", user_id |-> user_id,
                before |-> get_user_state(user_states, user_id)]
    /\ UNCHANGED <<beside, users, gong, banned, intact, delivered, now, th, calls>>

\* get_state and get_data make one database call, get_user_state, a SELECT:
\* the table is as it was.  `after` is the call made just before the read.
GetStep(user_id) ==
    /\ last' = [op |-> "get_state", user_id |-> user_id,
                result |-> get_state(user_states, user_id),
                before |-> get_user_state(user_states, user_id),
                after |-> last.op]
    /\ UNCHANGED <<beside, users, gong, user_states, banned, intact, delivered, now, th, written, calls>>

GetData(user_id) ==
    /\ last' = [op |-> "get_data", user_id |-> user_id,
                result |-> get_data(user_states, user_id),
                before |-> get_user_state(user_states, user_id),
                after |-> last.op]
    /\ UNCHANGED <<beside, users, gong, user_states, banned, intact, delivered, now, th, written, calls>>

\* main.py, _keepalive_task: self.db.cleanup_old_states(STATE_TIMEOUT)
Sweep ==
    /\ user_states' = cleanup_old_states(user_states, STATE_TIMEOUT, now)
    /\ written' = [u \in Users |-> WrittenAfter(written[u], user_states', u)]
    /\ last' = [op |-> "cleanup", at |-> now]
    /\ UNCHANGED <<beside, users, gong, banned, intact, delivered, now, th, calls>>

\* The clock counts in units of the timeout, and a handler returns within
\* the unit it was started in.
Tick ==
    /\ now < MaxTime
    /\ \A t \in Threads : th[t].prog = <<>>
    /\ now' = now + 1
    /\ UNCHANGED <<beside, users, gong, banned, intact, delivered, user_states, th, written, last, calls>>

NextEngine ==
    \/ \E u \in Users, s \in States : SetStep(u, s)
    \/ \E u \in Users, k \in EngineKeys, v \in EngineValues : SetField(u, k, v)
    \/ \E u \in Users, upd \in EngineUpdates : MergeFields(u, upd)
    \/ \E u \in Users : Clear(u)
    \/ \E u \in Users : GetStep(u)
    \/ \E u \in Users : GetData(u)
    \/ Sweep
    \/ Tick

SpecEngine == InitEngine /\ [][NextEngine]_vars

(***************************************************************************)
(* The same calls as the worker threads make them: get_user_state and      *)
(* set_user_state are two database calls, each atomic under the lock, and  *)
(* another thread or the sweep may run between them.                       *)
(***************************************************************************)
Get == [op |-> "get"]

SetStateCall(state) == <<Get, [op |-> "put_state", state |-> state]>>

SetDataCall(key, value) ==
    <<Get, [op |-> "put_data", key |-> key, value |-> value]>>

UpdateDataCall(updates) == <<Get, [op |-> "put_updates", updates |-> updates]>>

ClearStateCall == <<[op |-> "clear"]>>

Running(t) == th[t].prog # <<>>

NextOp(t) == Head(th[t].prog)

At(t, op) == Running(t) /\ NextOp(t).op = op

\* The thread has made the call that ends a StateManager method: the dict it
\* had read goes out of scope.
Advance(t) == [th EXCEPT ![t].prog = Tail(@), ![t].got = None]

\* state_data = self.db.get_user_state(user_id)
DbGet(t) ==
    /\ At(t, "get")
    /\ th' = [th EXCEPT ![t].prog = Tail(@),
                        ![t].got = get_user_state(user_states, th[t].user_id)]
    /\ UNCHANGED <<beside, users, gong, banned, intact, delivered, user_states, now, written, last, calls>>

\* set_state: current_data['state'] = state; self.db.set_user_state(...)
PutState(t) ==
    /\ At(t, "put_state")
    /\ user_states' = set_user_state(user_states, th[t].user_id,
                           set_state_local(th[t].got, NextOp(t).state), now)
    /\ th' = Advance(t)
    /\ UNCHANGED <<beside, users, gong, banned, intact, delivered, now, written, last, calls>>

\* set_data: state_data['data'][key] = value; self.db.set_user_state(...)
PutData(t) ==
    /\ At(t, "put_data")
    /\ user_states' = set_user_state(user_states, th[t].user_id,
                           set_data_local(th[t].got, NextOp(t).key,
                                          NextOp(t).value), now)
    /\ written' = [written EXCEPT ![th[t].user_id] =
                      DictSet(@, NextOp(t).key, NextOp(t).value)]
    /\ th' = Advance(t)
    /\ UNCHANGED <<beside, users, gong, banned, intact, delivered, now, last, calls>>

\* update_data: state_data['data'].update(updates); self.db.set_user_state(...)
PutUpdates(t) ==
    /\ At(t, "put_updates")
    /\ user_states' = set_user_state(user_states, th[t].user_id,
                           update_data_local(th[t].got, NextOp(t).updates), now)
    /\ written' = [written EXCEPT ![th[t].user_id] =
                      DictUpdate(@, NextOp(t).updates)]
    /\ th' = Advance(t)
    /\ UNCHANGED <<beside, users, gong, banned, intact, delivered, now, last, calls>>

\* clear_state: self.db.clear_user_state(user_id)
ClearState(t) ==
    /\ At(t, "clear")
    /\ user_states' = clear_user_state(user_states, th[t].user_id)
    /\ written' = [written EXCEPT ![th[t].user_id] = EmptyDict]
    /\ intact' = IF th[t].kind = "start_report"
                 THEN [intact EXCEPT ![th[t].user_id] = TRUE]
                 ELSE intact
    /\ th' = Advance(t)
    /\ UNCHANGED <<beside, users, gong, banned, delivered, now, last, calls>>

\* The sweep, run by the keepalive thread beside the workers.
Cleanup ==
    /\ user_states' = cleanup_old_states(user_states, STATE_TIMEOUT, now)
    /\ user_states' # user_states
    /\ written' = [u \in Users |-> WrittenAfter(written[u], user_states', u)]
    /\ intact' = [u \in Users |->
                    intact[u] /\ (u \in DOMAIN user_states => u \in DOMAIN user_states')]
    /\ UNCHANGED <<beside, users, gong, banned, delivered, now, th, last, calls>>

(***************************************************************************)
(* Two worker threads making StateManager calls for the same user.         *)
(***************************************************************************)
RaceStates == {LINE}

RaceCalls ==
    {SetStateCall(s) : s \in RaceStates}
    \cup {SetDataCall(k, "a") : k \in EngineKeys}
    \cup {UpdateDataCall([k \in EngineKeys |-> "b"])}
    \cup {ClearStateCall}

\* A worker thread takes up a call.
RaceCall(t, user_id, call) ==
    /\ ~Running(t)
    /\ calls < MaxCalls
    /\ calls' = calls + 1
    /\ th' = [th EXCEPT ![t] = [IdleThread EXCEPT !.user_id = user_id,
                                                   !.prog = call]]
    /\ UNCHANGED <<beside, users, gong, banned, intact, delivered, user_states, now, written, last>>

NextRace ==
    \/ \E t \in Threads, u \in Users, c \in RaceCalls : RaceCall(t, u, c)
    \/ \E t \in Threads : DbGet(t)
    \/ \E t \in Threads : PutState(t)
    \/ \E t \in Threads : PutData(t)
    \/ \E t \in Threads : PutUpdates(t)
    \/ \E t \in Threads : ClearState(t)
    \/ Cleanup
    \/ Tick

SpecRace == InitEngine /\ [][NextRace]_vars

(***************************************************************************)
(* utils.py: the validators and the time parser, on texts that are         *)
(* sequences of characters.  A button label of the bot is one character    *)
(* of the alphabet: the code compares labels and never looks inside one.   *)
(* The Russian labels are written in Latin letters.                        *)
(***************************************************************************)
Digits == {"0", "1", "2", "3", "4", "5", "6", "7", "8", "9"}

\* A character outside ASCII for which str.isdigit() is True: "sup2" stands
\* for U+00B2, the superscript two (the Arabic-Indic and the fullwidth
\* digits are others).
OtherDigits == {"sup2"}

\* the whitespace of the alphabet
Whitespace == {" ", "\n"}

RECURSIVE LStrip(_)
LStrip(text) ==
    IF text # <<>> /\ Head(text) \in Whitespace THEN LStrip(Tail(text)) ELSE text

RECURSIVE RStrip(_)
RStrip(text) ==
    IF text # <<>> /\ text[Len(text)] \in Whitespace
    THEN RStrip(SubSeq(text, 1, Len(text) - 1))
    ELSE text

\* str.strip()
Strip(text) == RStrip(LStrip(text))

NO_COMMENT_LABEL == "Bez kommentariya"

\* str.lower(): of the alphabet only the label has an upper-case letter
Lower(text) ==
    [i \in 1..Len(text) |->
        IF text[i] = NO_COMMENT_LABEL THEN "bez kommentariya" ELSE text[i]]

\* str.isdigit(): not empty, and every character a digit of Unicode
IsDigit(text) ==
    /\ text # <<>>
    /\ \A i \in 1..Len(text) : text[i] \in Digits \cup OtherDigits

\* validate_text_length: (valid, error)
validate_text_length(text, max_length) ==
    IF text = <<>> \/ Strip(text) = <<>> THEN [valid |-> FALSE, error |-> "empty"]
    ELSE IF Len(text) > max_length THEN [valid |-> FALSE, error |-> "too_long"]
    ELSE [valid |-> TRUE, error |-> "none"]

\* validate_route_number: (valid, error)
validate_route_number(route) ==
    IF ~IsDigit(route) THEN [valid |-> FALSE, error |-> "digits_only"]
    ELSE IF Len(route) # 3 THEN [valid |-> FALSE, error |-> "three_digit"]
    ELSE [valid |-> TRUE, error |-> "none"]

\* A time label is a text; the label of "now" is one character of the
\* alphabet.
NOW_LABEL == <<"Seychas">>

\* str.split(): the words between runs of whitespace
RECURSIVE Words(_, _)
Words(text, word) ==
    IF text = <<>> THEN (IF word = <<>> THEN <<>> ELSE <<word>>)
    ELSE IF Head(text) \in Whitespace
    THEN (IF word = <<>> THEN <<>> ELSE <<word>>) \o Words(Tail(text), <<>>)
    ELSE Words(Tail(text), Append(word, Head(text)))

\* The number written by a string of decimal digits.
RECURSIVE Decimal(_)
Decimal(digits) ==
    IF digits = <<>> THEN 0
    ELSE 10 * Decimal(SubSeq(digits, 1, Len(digits) - 1))
         + (CHOOSE n \in 0..9 : ToString(n) = digits[Len(digits)])

\* int(word) of a word without whitespace: an optional sign and decimal
\* digits give the number, anything else raises ValueError.
int(word) ==
    LET signed == word # <<>> /\ Head(word) \in {"-", "+"}
        digits == IF signed THEN Tail(word) ELSE word
    IN  IF digits # <<>> /\ \A i \in 1..Len(digits) : digits[i] \in Digits
        THEN [raised |-> FALSE,
              value |-> IF signed /\ Head(word) = "-" THEN 0 - Decimal(digits)
                        ELSE Decimal(digits)]
        ELSE [raised |-> TRUE, value |-> 0]

\* A parser that takes the last word of the label.
parse_time_ago_last(time_str) ==
    LET words == Words(time_str, <<>>)
    IN  IF time_str = NOW_LABEL THEN 0
        ELSE IF words = <<>> THEN 0
        ELSE IF int(words[Len(words)]).raised THEN 0
        ELSE int(words[Len(words)]).value

parse_time_ago(time_str) ==
    LET words == Words(time_str, <<>>)
    IN  IF time_str = NOW_LABEL THEN 0
        ELSE IF words = <<>> THEN 0                       \* IndexError
        ELSE IF int(words[1]).raised THEN 0               \* ValueError
        ELSE int(words[1]).value

\* (datetime.now() - timedelta(minutes=minutes_ago)).strftime("%H:%M"): the
\* wall clock at the moment of the call, less the minutes.
real_time(clock, minutes_ago) == [at |-> clock, ago |-> minutes_ago]

(***************************************************************************)
(* config.py (not part of the sources at hand): the lines, their stations, *)
(* the length limits, and the labels of the bot's buttons.                 *)
(***************************************************************************)
LINES == {"1"}
STATIONS == [l \in LINES |-> {"S"}]
TIMES == {NOW_LABEL, <<"5", " ", "m">>}
MAX_TRAIN_NAME_LENGTH == 3
MAX_COMMENT_LENGTH == 3

SKIP_LABEL == <<"Propustit">>
ENTER_ROUTE_LABEL == <<"Ukazat marshrut">>
TRAIN_MANUAL_DATA == <<"manual">>

\* bot.py, _publish: @retry_on_error(max_retries=3, delay=1.0)
PUBLISH_MAX_RETRIES == 3
PUBLISH_DELAY == 1

Required == {"line", "train", "station", "direction", "time", "route", "comment"}

\* msg.message_id of the message the bot has sent.  The ids of the prompts
\* are not told apart; a rejection message has another id than a prompt.
MsgId(tag) ==
    IF tag \in {"error", "choose_button", "digits_only", "three_digit"}
    THEN "rejection" ELSE "prompt"

(***************************************************************************)
(* What a user sends: button presses with their payload, and texts.        *)
(***************************************************************************)
LinePayloads == {"1", "9"}                  \* "9" is no line of LINES
TrainPayloads == {<<"T">>, TRAIN_MANUAL_DATA}
StationPayloads == {"S"}
TimePayloads == TIMES
ConfirmPayloads == {"confirm_publish", "confirm_cancel"}

TrainTexts == {<<"t">>, <<" ", "t", " ">>, <<" ">>, <<"t", "t", "t", "t">>}
RouteChoiceTexts == {SKIP_LABEL, ENTER_ROUTE_LABEL, <<"x">>}
RouteTexts == {<<"1", "2", "3">>, <<"1", "2", "a">>, <<"1", "2">>, <<" ">>}
CommentTexts == {<<NO_COMMENT_LABEL>>, <<"c">>, <<" ">>, <<"c", "c", "c", "c">>}

\* The texts a user types in answer to the prompt of a step.
TextsAt(state) ==
    CASE state = TRAIN_MANUAL -> TrainTexts
      [] state = ROUTE_CHOICE -> RouteChoiceTexts
      [] state = ROUTE_MANUAL -> RouteTexts
      [] state = COMMENT -> CommentTexts
      [] OTHER -> {<<"x">>}

(***************************************************************************)
(* bot.py: what each handler does once its step check has passed, as the   *)
(* sequence of calls it makes.  Calls that read the store or the transport *)
(* and change nothing (_delete_msg, db.get_trains, answer_callback_query,  *)
(* the _error_msg of the except clauses, logging) are left out.            *)
(*                                                                         *)
(* A send of the bot may raise.  In a handler's own try block that ends    *)
(* the handler (abort); in a helper with its own try block (_ask_station,  *)
(* _show_confirm, ...) it ends the helper: the next `skip` calls are left  *)
(* out and the handler goes on.                                            *)
(***************************************************************************)
Send(tag) == [op |-> "send", tag |-> tag, abort |-> TRUE, skip |-> 0]

SendInHelper(tag, skip) ==
    [op |-> "send", tag |-> tag, abort |-> FALSE, skip |-> skip]

\* self.state_mgr.set_data(user_id, 'last_msg', msg.message_id)
SaveLastMsg(tag) == SetDataCall("last_msg", MsgId(tag))

\* What is left of the calls `rest` when the send `op` has raised.
AfterRaise(op, rest) ==
    IF op.abort THEN <<>> ELSE SubSeq(rest, op.skip + 1, Len(rest))

ask_station ==
    <<[op |-> "ask_lookup", skip |-> 3], SendInHelper("station_prompt", 2)>>
    \o SaveLastMsg("station_prompt")

ask_direction ==
    <<[op |-> "ask_lookup", skip |-> 3], SendInHelper("direction_prompt", 2)>>
    \o SaveLastMsg("direction_prompt")

ask_time == <<SendInHelper("time_prompt", 2)>> \o SaveLastMsg("time_prompt")

ask_route == <<SendInHelper("route_prompt", 2)>> \o SaveLastMsg("route_prompt")

ask_comment == <<SendInHelper("comment_prompt", 2)>> \o SaveLastMsg("comment_prompt")

show_confirm ==
    <<[op |-> "confirm_lookup", skip |-> 3], SendInHelper("confirm_prompt", 2)>>
    \o SaveLastMsg("confirm_prompt")

\* _start_report without its clear_state call
start_report_kept ==
    SetStateCall(LINE) \o <<Send("line_prompt")>> \o SaveLastMsg("line_prompt")

start_report ==
    ClearStateCall \o SetStateCall(LINE) \o <<Send("line_prompt")>> \o SaveLastMsg("line_prompt")

select_line(line_id) ==
    IF line_id \notin LINES THEN <<>>
    ELSE UpdateDataCall([k \in {"line"} |-> line_id]) \o SetStateCall(TRAIN)
         \o <<Send("train_prompt")>> \o SaveLastMsg("train_prompt")

select_train(data) ==
    IF data = TRAIN_MANUAL_DATA
    THEN SetStateCall(TRAIN_MANUAL) \o <<Send("train_manual_prompt")>>
         \o SaveLastMsg("train_manual_prompt")
    ELSE SetDataCall("train", data) \o SetStateCall(STATION) \o ask_station

manual_train(text) ==
    LET train == Strip(text)
    IN  IF ~validate_text_length(train, MAX_TRAIN_NAME_LENGTH).valid
        THEN <<Send("error")>> \o SaveLastMsg("error")
        ELSE SetDataCall("train", train) \o SetStateCall(STATION) \o ask_station

\* _select_station without its set_data call
select_station_unsaved(station) == SetStateCall(DIRECTION) \o ask_direction

select_station(station) ==
    SetDataCall("station", station) \o SetStateCall(DIRECTION) \o ask_direction

select_direction(direction) ==
    SetDataCall("direction", direction) \o SetStateCall(TIME) \o ask_time

select_time(time_str, clock) ==
    LET minutes_ago == parse_time_ago(time_str)
    IN  SetDataCall("time", real_time(clock, minutes_ago))
        \o SetStateCall(ROUTE_CHOICE) \o ask_route

route_choice(text) ==
    LET choice == Strip(text)
    IN  IF choice = SKIP_LABEL
        THEN SetDataCall("route", <<"-">>) \o SetStateCall(COMMENT) \o ask_comment
        ELSE IF choice = ENTER_ROUTE_LABEL
        THEN SetStateCall(ROUTE_MANUAL) \o <<Send("route_manual_prompt")>>
             \o SaveLastMsg("route_manual_prompt")
        ELSE <<Send("choose_button")>> \o SaveLastMsg("choose_button")

\* _manual_route clearing the conversation when it rejects the route
manual_route_clearing(text) ==
    LET route == Strip(text)
        error == validate_route_number(route).error
    IN  IF ~validate_route_number(route).valid
        THEN ClearStateCall \o <<Send(error)>> \o SaveLastMsg(error)
        ELSE SetDataCall("route", route) \o SetStateCall(COMMENT) \o ask_comment

manual_route(text) ==
    LET route == Strip(text)
        error == validate_route_number(route).error
    IN  IF ~validate_route_number(route).valid
        THEN <<Send(error)>> \o SaveLastMsg(error)
        ELSE SetDataCall("route", route) \o SetStateCall(COMMENT) \o ask_comment

comment_input(text) ==
    LET stripped == Strip(text)
        no_comment == Lower(stripped) = <<"bez kommentariya">>
        comment == IF no_comment THEN <<"-">> ELSE stripped
    IN  IF ~no_comment /\ ~validate_text_length(comment, MAX_COMMENT_LENGTH).valid
        THEN <<Send("error")>> \o SaveLastMsg("error")
        ELSE SetDataCall("comment", comment) \o SetStateCall(CONFIRM)
             \o show_confirm

confirm_action(data) ==
    IF data = "confirm_publish"
    THEN <<[op |-> "publish"], Send("report")>> \o ClearStateCall
    ELSE <<Send("cancelled")>> \o ClearStateCall

\* The callback handlers: the step _check_state expects, the payloads of
\* the buttons, and the calls made once the check has passed.
CallbackKinds == {"select_line", "select_train", "select_station",
                  "select_direction", "select_time", "confirm_action"}

Expected(kind) ==
    CASE kind = "select_line" -> LINE
      [] kind = "select_train" -> TRAIN
      [] kind = "select_station" -> STATION
      [] kind = "select_direction" -> DIRECTION
      [] kind = "select_time" -> TIME
      [] kind = "confirm_action" -> CONFIRM

Payloads(kind) ==
    CASE kind = "select_line" -> LinePayloads
      [] kind = "select_train" -> TrainPayloads
      [] kind = "select_station" -> StationPayloads
      [] kind = "select_direction" -> StationPayloads
      [] kind = "select_time" -> TimePayloads
      [] kind = "confirm_action" -> ConfirmPayloads

CallbackBody(kind, data, clock) ==
    CASE kind = "select_line" -> select_line(data)
      [] kind = "select_train" -> select_train(data)
      [] kind = "select_station" -> select_station(data)
      [] kind = "select_direction" -> select_direction(data)
      [] kind = "select_time" -> select_time(data, clock)
      [] kind = "confirm_action" -> confirm_action(data)

\* register_handlers: the message handlers whose filter is the user's step
TextStates == {TRAIN_MANUAL, ROUTE_CHOICE, ROUTE_MANUAL, COMMENT}

MessageKind(state) ==
    CASE state = TRAIN_MANUAL -> "manual_train"
      [] state = ROUTE_CHOICE -> "route_choice"
      [] state = ROUTE_MANUAL -> "manual_route"
      [] state = COMMENT -> "comment_input"

MessageBody(state, text) ==
    CASE state = TRAIN_MANUAL -> manual_train(text)
      [] state = ROUTE_CHOICE -> route_choice(text)
      [] state = ROUTE_MANUAL -> manual_route(text)
      [] state = COMMENT -> comment_input(text)

(***************************************************************************)
(* utils.py, retry_on_error, around a function whose successive calls end  *)
(* as `results` says (raised or returned a value): how many calls are      *)
(* made, the waits between them, and what comes out.                       *)
(***************************************************************************)
\* A decorator that sleeps after the last failed call as well.
RECURSIVE retry_loop_sleeping(_, _, _, _, _)
retry_loop_sleeping(results, attempt, max_retries, delay, waits) ==
    IF attempt >= max_retries
    THEN [raised |-> TRUE, value |-> FALSE, calls |-> attempt, waits |-> waits,
          exception |-> results[attempt].exception]
    ELSE IF ~results[attempt + 1].raised
    THEN [raised |-> FALSE, value |-> results[attempt + 1].value,
          calls |-> attempt + 1, waits |-> waits]
    ELSE retry_loop_sleeping(results, attempt + 1, max_retries, delay,
                             Append(waits, delay * 2 ^ attempt))

\* for attempt in range(max_retries): try: return func(...); except: sleep
\* delay * 2 ** attempt if attempt < max_retries - 1; after the loop,
\* raise last_exception
RECURSIVE retry_loop(_, _, _, _, _)
retry_loop(results, attempt, max_retries, delay, waits) ==
    IF attempt >= max_retries
    THEN [raised |-> TRUE, value |-> FALSE, calls |-> attempt, waits |-> waits,
          exception |-> results[attempt].exception]
    ELSE IF ~results[attempt + 1].raised
    THEN [raised |-> FALSE, value |-> results[attempt + 1].value,
          calls |-> attempt + 1, waits |-> waits]
    ELSE IF attempt < max_retries - 1
    THEN retry_loop(results, attempt + 1, max_retries, delay,
                    Append(waits, delay * 2 ^ attempt))
    ELSE retry_loop(results, attempt + 1, max_retries, delay, waits)

retry_on_error(results, max_retries, delay) ==
    retry_loop(results, 0, max_retries, delay, <<>>)

\* bot.py, _publish, one call: the report is built from the seven answers
\* (a missing one is a KeyError) and sent to the channel; whatever is raised
\* is caught inside and False is returned.
publish(data, send_ok) ==
    IF ~(Required \subseteq DOMAIN data)
    THEN [raised |-> FALSE, value |-> FALSE, sends |-> 0, delivered |-> 0]
    ELSE [raised |-> FALSE, value |-> send_ok, sends |-> 1,
          delivered |-> IF send_ok THEN 1 ELSE 0]

RECURSIVE SumOver(_, _, _)
SumOver(results, field, n) ==
    IF n = 0 THEN 0 ELSE results[n][field] + SumOver(results, field, n - 1)

(***************************************************************************)
(* The worker threads running the handlers of the wizard.                  *)
(***************************************************************************)
MaxDeliveries == 2          \* confirm presses stop after so many deliveries

InitWizard == InitEngine

\* One event of a user is handled at a time (a user's events arrive and are
\* processed in order), by the first idle worker.
Free(t, user_id) ==
    /\ \A t2 \in Threads : ~Running(t2)
    /\ t = 1

Begin(t, user_id, kind, first) ==
    [th EXCEPT ![t] = [IdleThread EXCEPT !.user_id = user_id, !.kind = kind,
                                         !.prog = <<first>>]]

\* The user sends the text of the "report a car" button: _start_report.
PressStart(t, user_id) ==
    /\ Free(t, user_id)
    /\ th' = Begin(t, user_id, "start_report", [op |-> "is_banned"])
    /\ UNCHANGED <<beside, users, gong, user_states, now, banned, intact, delivered, written, last, calls>>

\* The user presses an inline button: the callback handler of its prefix.
Press(t, user_id, kind, data) ==
    /\ Free(t, user_id)
    /\ kind = "confirm_action" => delivered[user_id] < MaxDeliveries
    /\ th' = Begin(t, user_id, kind,
                   [op |-> "check", expected |-> Expected(kind), data |-> data])
    /\ UNCHANGED <<beside, users, gong, user_states, now, banned, intact, delivered, written, last, calls>>

\* The user types a text in answer to the prompt of the current step.
SendText(t, user_id, text) ==
    /\ Free(t, user_id)
    /\ text \in TextsAt(get_state(user_states, user_id))
    /\ th' = Begin(t, user_id, "message", [op |-> "dispatch", text |-> text])
    /\ UNCHANGED <<beside, users, gong, user_states, now, banned, intact, delivered, written, last, calls>>

\* The handler has passed its step check and sets out to make `body`.
Passed(t, kind, body) ==
    [th EXCEPT ![t].kind = kind, ![t].prog = body, ![t].plan = body,
               ![t].passed = TRUE,
               ![t].snap = get_data(user_states, th[t].user_id)]

\* database.py, the tables banned_users and users
is_banned_never(bans, user_id) == FALSE

\* SELECT 1 FROM banned_users WHERE user_id = ?
is_banned(bans, user_id) == \E row \in bans : row.user_id = user_id

\* A ban without a stated reason, and the reason the ban button gives.
NO_REASON == "-"

BUTTON_REASON == "button"

\* the user ids of the rows of banned_users
BannedIds(bans) == {row.user_id : row \in bans}

\* INSERT OR REPLACE INTO banned_users (user_id, reason): user_id is the
\* primary key, so the rows that conflict with the new one are deleted
\* before it is inserted.
ban_user_ignoring(bans, user_id, reason) ==
    IF user_id \in BannedIds(bans) THEN bans
    ELSE bans \cup {[user_id |-> user_id, reason |-> reason]}

ban_user(bans, user_id, reason) ==
    {row \in bans : row.user_id # user_id}
        \cup {[user_id |-> user_id, reason |-> reason]}

\* DELETE FROM banned_users WHERE user_id = ?
unban_user(bans, user_id) == {row \in bans : row.user_id # user_id}

\* INSERT OR REPLACE INTO users (user_id, username, first_name): user_id is
\* the primary key, so the row of a known user is deleted and a new row is
\* inserted, whose created_at is the DEFAULT CURRENT_TIMESTAMP.
add_user(tbl, user_id, username, first_name, clock) ==
    [id \in DOMAIN tbl \cup {user_id} |->
        IF id = user_id
        THEN [username |-> username, first_name |-> first_name,
              created_at |-> clock]
        ELSE tbl[id]]

\* _start_report: if self.ban_mgr.is_banned(user_id): send; return
DoIsBanned(t) ==
    /\ At(t, "is_banned")
    /\ IF is_banned(banned, th[t].user_id)
       THEN /\ th' = [th EXCEPT ![t].prog = <<Send("banned_notice")>>]
            /\ UNCHANGED delivered
       ELSE /\ th' = Passed(t, "start_report", start_report)
            /\ delivered' = [delivered EXCEPT ![th[t].user_id] = 0]
    /\ UNCHANGED <<beside, users, gong, user_states, now, banned, intact, written, last, calls>>

\* _check_state: if self.state_mgr.get_state(...) != expected: answer; False
\* (the buttons are those of the bot's own messages, so call.message is set)
check_state_silent == <<>>

check_state == <<Send("start_over")>>

DoCheck(t) ==
    /\ At(t, "check")
    /\ IF get_state(user_states, th[t].user_id) # NextOp(t).expected
       THEN th' = [th EXCEPT ![t].prog = check_state]
       ELSE th' = Passed(t, th[t].kind,
                         CallbackBody(th[t].kind, NextOp(t).data, now))
    /\ UNCHANGED <<beside, users, gong, user_states, now, banned, intact, delivered, written, last, calls>>

\* The filters of the message handlers read the step; the first that holds
\* names the handler, and a text no filter takes is not handled here.
DoDispatch(t) ==
    /\ At(t, "dispatch")
    /\ LET state == get_state(user_states, th[t].user_id)
       IN  IF state \in TextStates
           THEN th' = Passed(t, MessageKind(state),
                             MessageBody(state, NextOp(t).text))
           ELSE th' = [th EXCEPT ![t] = IdleThread]
    /\ UNCHANGED <<beside, users, gong, user_states, now, banned, intact, delivered, written, last, calls>>

\* self.bot.send_message(...): it is sent, or it raises.
DoSend(t) ==
    /\ At(t, "send")
    /\ \E ok \in BOOLEAN :
          th' = IF ok
                THEN [th EXCEPT ![t].prog = Tail(@),
                                ![t].tried = @ \cup {NextOp(t).tag},
                                ![t].reported =
                                    IF NextOp(t).tag # "report" THEN @
                                    ELSE IF th[t].success THEN "ok" ELSE "failed"]
                ELSE [th EXCEPT ![t].prog = AfterRaise(NextOp(t), Tail(@)),
                                ![t].tried = @ \cup {NextOp(t).tag}]
    /\ UNCHANGED <<beside, users, gong, user_states, now, banned, intact, delivered, written, last, calls>>

\* _ask_station, _ask_direction: line_id = data.get('line');
\* if not line_id or line_id not in STATIONS: self._error_msg(chat_id); return
DoAskLookup(t) ==
    /\ At(t, "ask_lookup")
    /\ LET line_id == DictGet(get_data(user_states, th[t].user_id), "line", "")
       IN  th' = IF line_id = "" \/ line_id \notin DOMAIN STATIONS
                 THEN [th EXCEPT ![t].prog =
                          SubSeq(Tail(@), NextOp(t).skip + 1, Len(Tail(@)))]
                 ELSE [th EXCEPT ![t].prog = Tail(@)]
    /\ UNCHANGED <<beside, users, gong, user_states, now, banned, intact, delivered, written, last, calls>>

\* _error_msg: the send of the generic error, in a try block of its own
error_msg == <<SendInHelper("generic_error", 0)>>

\* _show_confirm with a field missing, the clear_state left out
abort_confirm_kept(rest, skip) ==
    error_msg \o SubSeq(rest, skip + 1, Len(rest))

\* _show_confirm with a field missing: the error, clear_state, return; the
\* rest of the helper is skipped.
abort_confirm(rest, skip) ==
    error_msg \o ClearStateCall \o SubSeq(rest, skip + 1, Len(rest))

\* _show_confirm: if not all(k in data for k in required):
\*     self._error_msg(chat_id); self.state_mgr.clear_state(user_id); return
DoConfirmLookup(t) ==
    /\ At(t, "confirm_lookup")
    /\ th' = IF Required \subseteq DOMAIN get_data(user_states, th[t].user_id)
             THEN [th EXCEPT ![t].prog = Tail(@)]
             ELSE [th EXCEPT ![t].prog = abort_confirm(Tail(@), NextOp(t).skip),
                             ![t].lacking = TRUE]
    /\ UNCHANGED <<beside, users, gong, user_states, now, banned, intact, delivered, written, last, calls>>

\* success = self._publish(...), under @retry_on_error(max_retries=3, delay=1.0)
DoPublish(t) ==
    /\ At(t, "publish")
    /\ \E oks \in [1..PUBLISH_MAX_RETRIES -> BOOLEAN] :
          LET data == get_data(user_states, th[t].user_id)
              results == [i \in 1..PUBLISH_MAX_RETRIES |-> publish(data, oks[i])]
              out == retry_on_error(results, PUBLISH_MAX_RETRIES, PUBLISH_DELAY)
          IN  /\ th' = IF out.raised
                       THEN [th EXCEPT ![t].prog = <<>>,
                                       ![t].attempts = SumOver(results, "sends", out.calls)]
                       ELSE [th EXCEPT ![t].prog = Tail(@),
                                       ![t].success = out.value,
                                       ![t].attempts = SumOver(results, "sends", out.calls)]
              /\ delivered' = [delivered EXCEPT ![th[t].user_id] =
                                  @ + SumOver(results, "delivered", out.calls)]
    /\ UNCHANGED <<beside, users, gong, user_states, now, banned, intact, written, last, calls>>

\* admin/ban.py: an admin bans or unbans a user (db.ban_user, db.unban_user)
Ban(user_id) ==
    /\ user_id \notin BannedIds(banned)
    /\ banned' = ban_user(banned, user_id, NO_REASON)
    /\ UNCHANGED <<beside, users, gong, user_states, now, th, intact, delivered, written, last, calls>>

Unban(user_id) ==
    /\ user_id \in BannedIds(banned)
    /\ banned' = unban_user(banned, user_id)
    /\ UNCHANGED <<beside, users, gong, user_states, now, th, intact, delivered, written, last, calls>>

Next ==
    \/ \E t \in Threads, u \in Users : PressStart(t, u)
    \/ \E t \in Threads, u \in Users, k \in CallbackKinds :
          \E d \in Payloads(k) : Press(t, u, k, d)
    \/ \E t \in Threads, u \in Users :
          \E x \in TextsAt(get_state(user_states, u)) : SendText(t, u, x)
    \/ \E t \in Threads : DoIsBanned(t)
    \/ \E t \in Threads : DoCheck(t)
    \/ \E t \in Threads : DoDispatch(t)
    \/ \E t \in Threads : DoSend(t)
    \/ \E t \in Threads : DoAskLookup(t)
    \/ \E t \in Threads : DoConfirmLookup(t)
    \/ \E t \in Threads : DoPublish(t)
    \/ \E t \in Threads : DbGet(t)
    \/ \E t \in Threads : PutState(t)
    \/ \E t \in Threads : PutData(t)
    \/ \E t \in Threads : PutUpdates(t)
    \/ \E t \in Threads : ClearState(t)
    \/ \E u \in Users : Ban(u)
    \/ \E u \in Users : Unban(u)
    \/ Cleanup
    \/ Tick

Spec == InitWizard /\ [][Next]_vars

\* The wizard with an admin who bans and unbans between two events of the
\* users, never while a handler runs: a user who is banned while a handler
\* of theirs runs was banned before the event arrived.
BanBetween(user_id) ==
    /\ \A t \in Threads : ~Running(t)
    /\ Ban(user_id)

UnbanBetween(user_id) ==
    /\ \A t \in Threads : ~Running(t)
    /\ Unban(user_id)

NextBanned ==
    \/ \E t \in Threads, u \in Users : PressStart(t, u)
    \/ \E t \in Threads, u \in Users, k \in CallbackKinds :
          \E d \in Payloads(k) : Press(t, u, k, d)
    \/ \E t \in Threads, u \in Users :
          \E x \in TextsAt(get_state(user_states, u)) : SendText(t, u, x)
    \/ \E t \in Threads : DoIsBanned(t)
    \/ \E t \in Threads : DoCheck(t)
    \/ \E t \in Threads : DoDispatch(t)
    \/ \E t \in Threads : DoSend(t)
    \/ \E t \in Threads : DoAskLookup(t)
    \/ \E t \in Threads : DoConfirmLookup(t)
    \/ \E t \in Threads : DoPublish(t)
    \/ \E t \in Threads : DbGet(t)
    \/ \E t \in Threads : PutState(t)
    \/ \E t \in Threads : PutData(t)
    \/ \E t \in Threads : PutUpdates(t)
    \/ \E t \in Threads : ClearState(t)
    \/ \E u \in Users : BanBetween(u)
    \/ \E u \in Users : UnbanBetween(u)

SpecBanned == InitWizard /\ [][NextBanned]_vars

(***************************************************************************)
(* The route step on its own: a user who has given the five answers before *)
(* it stands at the choice between entering a route and skipping it, and   *)
(* types texts over an alphabet of an ASCII digit, a letter, a digit       *)
(* outside ASCII and a blank.  `last` keeps the text typed.                *)
(***************************************************************************)
MaxRoute == 4

RouteAlphabet == {"1", "a", "sup2", " "}

RouteInputs == UNION {[1..n -> RouteAlphabet] : n \in 1..MaxRoute}

\* The record of a user whom _select_time has asked for the route.
AtRouteChoice ==
    [state |-> ROUTE_CHOICE,
     data |-> [line |-> "1", train |-> <<"T">>, station |-> "S",
               direction |-> "S", time |-> real_time(0, 0),
               last_msg |-> MsgId("route_prompt")]]

InitRoute == InitFrom(set_user_state(EmptyTable, 1, AtRouteChoice, 0))

\* The user types `text` at one of the two steps of the route.
TypeRoute(t, user_id, text) ==
    /\ Free(t, user_id)
    /\ \/ /\ get_state(user_states, user_id) = ROUTE_CHOICE
          /\ text \in RouteChoiceTexts
       \/ /\ get_state(user_states, user_id) = ROUTE_MANUAL
          /\ text \in RouteInputs
    /\ th' = Begin(t, user_id, "message", [op |-> "dispatch", text |-> text])
    /\ last' = [op |-> "text", text |-> text]
    /\ UNCHANGED <<beside, users, gong, user_states, now, banned, intact,
                   delivered, written, calls>>

NextRoute ==
    \/ \E t \in Threads, u \in Users :
          \E x \in RouteChoiceTexts \cup RouteInputs : TypeRoute(t, u, x)
    \/ \E t \in Threads : DoDispatch(t)
    \/ \E t \in Threads : DoSend(t)
    \/ \E t \in Threads : DbGet(t)
    \/ \E t \in Threads : PutState(t)
    \/ \E t \in Threads : PutData(t)

SpecRoute == InitRoute /\ [][NextRoute]_vars

(***************************************************************************)
(* The time step on its own: a user who stands at the step Time presses a  *)
(* button time_<label>, for labels over an alphabet of two digits, a       *)
(* letter, a sign and a blank, the empty label included.  `last` keeps the *)
(* label and the clock of the press.                                       *)
(***************************************************************************)
MaxLabel == 3

LabelAlphabet == {"1", "5", "m", "-", " "}

TimeInputs ==
    {NOW_LABEL} \cup UNION {[1..n -> LabelAlphabet] : n \in 0..MaxLabel}

\* The record of a user whom _select_direction has asked for the time.
AtTime ==
    [state |-> TIME,
     data |-> [line |-> "1", train |-> <<"T">>, station |-> "S",
               direction |-> "S", last_msg |-> MsgId("time_prompt")]]

InitTime == InitFrom(set_user_state(EmptyTable, 1, AtTime, 0))

\* The user presses the button time_<label> of the prompt of the step
\* Time: _select_time.
PressTime(t, user_id, label) ==
    /\ Free(t, user_id)
    /\ get_state(user_states, user_id) = TIME
    /\ th' = Begin(t, user_id, "select_time",
                   [op |-> "check", expected |-> TIME, data |-> label])
    /\ last' = [op |-> "time", label |-> label, at |-> now]
    /\ UNCHANGED <<beside, users, gong, user_states, now, banned, intact,
                   delivered, written, calls>>

NextTime ==
    \/ \E t \in Threads, u \in Users, label \in TimeInputs :
          PressTime(t, u, label)
    \/ \E t \in Threads : DoCheck(t)
    \/ \E t \in Threads : DoSend(t)
    \/ \E t \in Threads : DbGet(t)
    \/ \E t \in Threads : PutState(t)
    \/ \E t \in Threads : PutData(t)
    \/ Tick

SpecTime == InitTime /\ [][NextTime]_vars

(***************************************************************************)
(* The greeting (/start, bot.py _handle_start), which sights a user, and   *)
(* the bans an admin sets (admin/ban.py).  Users 1 and 2 write to the bot; *)
(* user 1 also enters the wizard.                                          *)
(***************************************************************************)
BanIds == {1, 2}

\* message.from_user.username of the two users
Username(id) == IF id = 1 THEN "anna" ELSE "boris"

\* The handles a user has had: the user may change the handle and the
\* display name between two messages.
Usernames(id) == IF id = 1 THEN {Username(id), "renamed"} ELSE {Username(id)}

\* message.from_user.first_name
FirstName(username) == IF username = "renamed" THEN "New name" ELSE "Name"

\* The third argument of /ban: args[2] if len(args) > 2 else "-"
Reasons == {NO_REASON, "spam"}

ADMINS == {9}

Callers == {9, 1}

\* COLLATE NOCASE
NoCase(name) == IF name = "ANNA" THEN "anna" ELSE name

\* The second argument of /ban: absent, an id, a @username, or neither.
BanArgs ==
    {[kind |-> "absent"], [kind |-> "malformed"]}
    \cup {[kind |-> "id", id |-> i] : i \in BanIds}
    \cup {[kind |-> "username", username |-> n] :
             n \in {"anna", "ANNA", "boris", "nobody"}}

\* The user ids of the rows the SELECT matches; fetchone takes one of them,
\* and none gives None.
get_user_id_by_username(tbl, username) ==
    {id \in DOMAIN tbl : NoCase(tbl[id].username) = NoCase(username)}

\* The user sends /start.
CmdStart(t, user_id) ==
    /\ Free(t, user_id)
    /\ th' = Begin(t, user_id, "handle_start", [op |-> "is_banned_start"])
    /\ UNCHANGED <<beside, users, gong, user_states, now, banned, intact, delivered,
                   written, last, calls>>

handle_start == <<[op |-> "add_user"], Send("greeting")>>

\* _handle_start: if self.ban_mgr.is_banned(user.id): send; return
DoIsBannedStart(t) ==
    /\ At(t, "is_banned_start")
    /\ th' = IF is_banned(banned, th[t].user_id)
             THEN [th EXCEPT ![t].prog = <<Send("banned_notice")>>]
             ELSE Passed(t, "handle_start", handle_start)
    /\ UNCHANGED <<beside, users, gong, user_states, now, banned, intact, delivered,
                   written, last, calls>>

\* self.db.add_user(user.id, user.username, user.first_name)
DoAddUser(t) ==
    /\ At(t, "add_user")
    /\ \E username \in Usernames(th[t].user_id) :
          users' = add_user(users, th[t].user_id, username,
                            FirstName(username), now)
    /\ th' = [th EXCEPT ![t].prog = Tail(@)]
    /\ UNCHANGED <<beside, gong, user_states, now, banned, intact, delivered,
                   written, last, calls>>

\* What a handler has sent, and whether an exception left it, when its one
\* send is made (ok) or raises, and the send of its except clause, if it
\* has one (reports), is made (report_ok) or raises.
Outcome(tag, ok, reports, report_ok) ==
    IF ok THEN [sent |-> <<tag>>, escaped |-> FALSE]
    ELSE IF ~reports THEN [sent |-> <<>>, escaped |-> FALSE]
    ELSE IF report_ok THEN [sent |-> <<"error">>, escaped |-> FALSE]
    ELSE [sent |-> <<>>, escaped |-> TRUE]

\* A handler that returned at once.
Ignored == [sent |-> <<>>, escaped |-> FALSE]

\* /ban <user_id> or /ban @username, sent by `caller`
HandleBan(caller, arg, reason, ok, report_ok) ==
    /\ banned' =
          IF caller \notin ADMINS \/ arg.kind \in {"absent", "malformed"}
          THEN banned
          ELSE IF arg.kind = "id" THEN ban_user(banned, arg.id, reason)
          ELSE LET found == get_user_id_by_username(users, arg.username)
               IN  IF found = {} THEN banned
                   ELSE ban_user(banned, CHOOSE id \in found : TRUE, reason)
    /\ last' = [op |-> "ban", caller |-> caller,
                out |-> IF caller \notin ADMINS THEN Ignored
                        ELSE Outcome("reply", ok, TRUE, report_ok)]
    /\ UNCHANGED <<beside, users, gong, user_states, now, th, intact, delivered,
                   written, calls>>

\* /unban <user_id> or /unban @username, sent by `caller`
HandleUnban(caller, arg, ok, report_ok) ==
    /\ banned' =
          IF caller \notin ADMINS \/ arg.kind \in {"absent", "malformed"}
          THEN banned
          ELSE IF arg.kind = "id" THEN unban_user(banned, arg.id)
          ELSE LET found == get_user_id_by_username(users, arg.username)
               IN  IF found = {} THEN banned
                   ELSE unban_user(banned, CHOOSE id \in found : TRUE)
    /\ last' = [op |-> "unban", caller |-> caller,
                out |-> IF caller \notin ADMINS THEN Ignored
                        ELSE Outcome("reply", ok, TRUE, report_ok)]
    /\ UNCHANGED <<beside, users, gong, user_states, now, th, intact, delivered,
                   written, calls>>

\* the button ban_user_<id> (ban) or unban_user_<id> of the list of recent
\* users, pressed by `caller`: one who is no admin is answered "no access"
CallbackBanUser(caller, user_id, ban, ok, report_ok) ==
    /\ banned' = IF caller \notin ADMINS THEN banned
                 ELSE IF ban THEN ban_user(banned, user_id, BUTTON_REASON)
                 ELSE unban_user(banned, user_id)
    /\ last' = [op |-> IF ban THEN "ban_user_" ELSE "unban_user_",
                caller |-> caller,
                out |-> Outcome(IF caller \in ADMINS THEN "answer"
                                ELSE "no_access", ok, TRUE, report_ok)]
    /\ UNCHANGED <<beside, users, gong, user_states, now, th, intact, delivered,
                   written, calls>>

\* The commands that only read: /banlist and /recent (admin/ban.py), /help
\* and /stats (main.py).  cmd_help has no try block; in cmd_stats the try
\* block begins after the check of the caller.
ReadCommands == {"banlist", "recent", "help", "stats"}

ReadCommand(cmd, caller, ok, report_ok) ==
    /\ last' = [op |-> cmd, caller |-> caller,
                out |-> IF caller \notin ADMINS THEN Ignored
                        ELSE IF cmd = "help" /\ ~ok
                        THEN [sent |-> <<>>, escaped |-> TRUE]
                        ELSE Outcome("reply", ok, TRUE, report_ok)]
    /\ UNCHANGED <<beside, users, gong, user_states, now, banned, th, intact,
                   delivered, written, calls>>

NextBan ==
    \/ \E t \in Threads, u \in Users : PressStart(t, u)
    \/ \E t \in Threads, id \in BanIds : CmdStart(t, id)
    \/ \E t \in Threads : DoIsBanned(t)
    \/ \E t \in Threads : DoIsBannedStart(t)
    \/ \E t \in Threads : DoAddUser(t)
    \/ \E t \in Threads : DoSend(t)
    \/ \E t \in Threads : DbGet(t)
    \/ \E t \in Threads : PutState(t)
    \/ \E t \in Threads : PutData(t)
    \/ \E t \in Threads : ClearState(t)
    \/ \E c \in Callers, arg \in BanArgs, reason \in Reasons, ok \in BOOLEAN,
          report_ok \in BOOLEAN :
          HandleBan(c, arg, reason, ok, report_ok)
    \/ \E c \in Callers, id \in BanIds, ok \in BOOLEAN, report_ok \in BOOLEAN :
          CallbackBanUser(c, id, TRUE, ok, report_ok)
    \/ \E id \in BanIds : Unban(id)

SpecBan == InitWizard /\ [][NextBan]_vars

\* The users who write /start, at different times, while an admin bans and
\* unbans them.
NextStart ==
    \/ \E t \in Threads, id \in BanIds : CmdStart(t, id)
    \/ \E t \in Threads : DoIsBannedStart(t)
    \/ \E t \in Threads : DoAddUser(t)
    \/ \E t \in Threads : DoSend(t)
    \/ \E id \in BanIds : Ban(id)
    \/ \E id \in BanIds : Unban(id)
    \/ Tick

SpecStart == InitWizard /\ [][NextStart]_vars

\* The calls of the ban table: db.ban_user(user_id, reason) and
\* db.unban_user(user_id), for a user who is banned or is not.  `before`
\* keeps the rows the user had when the call was made.
DbBanUser(user_id, reason) ==
    /\ banned' = ban_user(banned, user_id, reason)
    /\ last' = [op |-> "ban_user", user_id |-> user_id, reason |-> reason,
                before |-> {row \in banned : row.user_id = user_id}]
    /\ UNCHANGED <<beside, users, gong, user_states, now, th, intact, delivered,
                   written, calls>>

DbUnbanUser(user_id) ==
    /\ banned' = unban_user(banned, user_id)
    /\ last' = [op |-> "unban_user", user_id |-> user_id,
                before |-> {row \in banned : row.user_id = user_id}]
    /\ UNCHANGED <<beside, users, gong, user_states, now, th, intact, delivered,
                   written, calls>>

NextBans ==
    \/ \E id \in BanIds, reason \in Reasons \cup {BUTTON_REASON} :
          DbBanUser(id, reason)
    \/ \E id \in BanIds : DbUnbanUser(id)
    \/ \E t \in Threads, id \in BanIds : CmdStart(t, id)
    \/ \E t \in Threads : DoIsBannedStart(t)
    \/ \E t \in Threads : DoAddUser(t)
    \/ \E t \in Threads : DoSend(t)

SpecBans == InitWizard /\ [][NextBans]_vars

(***************************************************************************)
(* utils.py, retry_on_error(max_retries, delay) around a function whose    *)
(* successive calls raise one of two exceptions or return a value.  The    *)
(* decorator is given at least one try.  `last` keeps the call and what    *)
(* came out of it.                                                         *)
(***************************************************************************)
MaxRetries == 3

Delays == {1, 3}

CallOutcomes ==
    {[raised |-> TRUE, exception |-> e] : e \in {"Timeout", "ApiError"}}
    \cup {[raised |-> FALSE, value |-> v] : v \in BOOLEAN}

CallRetried(results, max_retries, delay) ==
    /\ last' = [op |-> "retry_on_error", results |-> results,
                max_retries |-> max_retries, delay |-> delay,
                out |-> retry_on_error(results, max_retries, delay)]
    /\ UNCHANGED <<beside, users, gong, user_states, now, banned, th, intact,
                   delivered, written, calls>>

NextRetry ==
    \E max_retries \in 1..MaxRetries, delay \in Delays :
        \E results \in [1..max_retries -> CallOutcomes] :
            CallRetried(results, max_retries, delay)

SpecRetry == InitWizard /\ [][NextRetry]_vars

(***************************************************************************)
(* The broadcast (admin/gong.py, _execute_gong) and its rate limiter       *)
(* (utils.py, RateLimiter).  Time is in seconds; of the time since the     *)
(* limiter's period_start only min(elapsed, period_seconds) is kept, which *)
(* is all that wait_if_needed tells apart.                                 *)
(***************************************************************************)
MaxRecipients == 100

GONG_RATE_LIMIT == 3

GONG_DELAY == 2

\* _execute_gong: if i % 50 == 0
PROGRESS_EVERY == 50

\* The sizes of the table users at the start of a run.
Sizes == {1, 2, 3, 4, 7, MaxRecipients}

\* The seconds a send may take.
SendTimes == {0, 1}

Min(a, b) == IF a <= b THEN a ELSE b

\* SELECT user_id FROM users: the rows in the order of the primary key
RECURSIVE Ascending(_)
Ascending(ids) ==
    IF ids = {} THEN <<>>
    ELSE LET below(id) == {o \in ids : o < id}
             middle == CHOOSE id \in ids :
                          Cardinality(below(id)) = Cardinality(ids) \div 2
         IN  Ascending(below(middle)) \o <<middle>>
                 \o Ascending({o \in ids : o > middle})

get_all_user_ids(tbl) == Ascending(DOMAIN tbl)

RateLimiter(messages_per_period, period_seconds) ==
    [messages_per_period |-> messages_per_period,
     period_seconds |-> period_seconds,
     message_count |-> 0, elapsed |-> 0]

\* Time passing for the limiter.
Later(rl, dt) == [rl EXCEPT !.elapsed = Min(@ + dt, rl.period_seconds)]

\* A wait_if_needed that never reaches its limit.
wait_if_needed_unlimited(rl) ==
    [rl |-> [rl EXCEPT !.message_count = @ + 1], throttle |-> FALSE, slept |-> 0]

\* A wait_if_needed that sleeps the whole period at its limit.
wait_if_needed_whole(rl) ==
    IF rl.message_count + 1 >= rl.messages_per_period
    THEN [rl |-> [rl EXCEPT !.message_count = 0, !.elapsed = 0],
          throttle |-> TRUE, slept |-> rl.period_seconds]
    ELSE [rl |-> [rl EXCEPT !.message_count = @ + 1],
          throttle |-> FALSE, slept |-> 0]

\* RateLimiter.wait_if_needed: the limiter after the call, whether the call
\* reached the limit (the throttle point), and the seconds it slept.
wait_if_needed(rl) ==
    IF rl.message_count + 1 >= rl.messages_per_period
    THEN [rl |-> [rl EXCEPT !.message_count = 0, !.elapsed = 0],
          throttle |-> TRUE,
          slept |-> IF rl.elapsed < rl.period_seconds
                    THEN rl.period_seconds - rl.elapsed ELSE 0]
    ELSE [rl |-> [rl EXCEPT !.message_count = @ + 1],
          throttle |-> FALSE, slept |-> 0]

\* The run as the loop is entered.
NewGong(all_users) ==
    [running |-> TRUE, done |-> FALSE, all_users |-> all_users, i |-> 0,
     success_count |-> 0, fail_count |-> 0,
     rate_limiter |-> RateLimiter(GONG_RATE_LIMIT, GONG_DELAY),
     attempts |-> <<>>,      \* history: the recipients a send was made to
     since |-> 0,            \* history: sends since the last throttle point
     paused |-> FALSE,       \* history: the limiter has slept
     throttled |-> FALSE,    \* history: the limiter has reached its limit
     last |-> [op |-> "none"]]

\* An iteration that counts no failed send.
gong_iteration_uncounted(g, dt, ok, progress_ok) ==
    [g EXCEPT !.i = @ + 1,
              !.attempts = Append(@, g.all_users[g.i + 1]),
              !.success_count = IF ok THEN @ + 1 ELSE @,
              !.last = [op |-> "send"]]

\* One iteration of the loop of _execute_gong: wait_if_needed, the send to
\* the next recipient, which takes dt seconds and is made or raises, and
\* after a send that was made the progress report of every 50th recipient.
gong_iteration(g, dt, ok, progress_ok) ==
    LET i == g.i + 1
        w == wait_if_needed(g.rate_limiter)
        success_count == IF ok THEN g.success_count + 1 ELSE g.success_count
        fail_count == IF ok THEN g.fail_count ELSE g.fail_count + 1
        progress ==
            IF ok /\ i % PROGRESS_EVERY = 0
            THEN [made |-> TRUE, i |-> i, success_count |-> success_count,
                  fail_count |-> g.fail_count, delivered |-> progress_ok]
            ELSE [made |-> FALSE]
    IN  [g EXCEPT !.i = i,
                  !.rate_limiter = Later(w.rl, dt),
                  !.attempts = Append(@, g.all_users[i]),
                  !.success_count = success_count,
                  !.fail_count = fail_count,
                  !.since = IF w.throttle THEN 1 ELSE @ + 1,
                  !.paused = @ \/ w.slept > 0,
                  !.throttled = @ \/ w.throttle,
                  !.last = [op |-> "send", i |-> i, ok |-> ok,
                            throttle |-> w.throttle, slept |-> w.slept,
                            elapsed |-> g.rate_limiter.elapsed,
                            since |-> g.since, progress |-> progress]]

\* The confirm button of the broadcast shown, pressed by `caller`.  One who
\* is no admin is answered "no access".  For an admin the text is found
\* (if not in the chat, then in the message of the buttons) and the notices
\* that the run has begun are sent (begun), which takes the buttons away,
\* or one of them raises.
ExecuteGong(caller, begun, report_ok) ==
    /\ gong.buttons
    /\ ~gong.running
    /\ gong' = IF caller \in ADMINS /\ begun
               THEN NewGong(get_all_user_ids(users))
                        @@ [gong EXCEPT !.buttons = FALSE,
                                        !.confirmed_by = caller]
               ELSE gong
    /\ last' = [op |-> "gong_confirm_", caller |-> caller,
                out |-> Outcome(IF caller \in ADMINS THEN "in_progress"
                                ELSE "no_access", begun, TRUE, report_ok)]
    /\ UNCHANGED <<beside, users, user_states, now, banned, th, intact, delivered,
                   written, calls>>

GongStep ==
    /\ gong.running /\ ~gong.done
    /\ gong.i < Len(gong.all_users)
    /\ \E dt \in SendTimes, ok \in BOOLEAN, progress_ok \in BOOLEAN :
          gong' = gong_iteration(gong, dt, ok, progress_ok)
    /\ UNCHANGED <<beside, users, user_states, now, banned, th, intact, delivered,
                   written, last, calls>>

\* The final report, whose edit_message_text is made or raises.
GongFinish ==
    /\ gong.running /\ ~gong.done
    /\ gong.i = Len(gong.all_users)
    /\ \E ok \in BOOLEAN :
          gong' = [gong EXCEPT !.done = TRUE,
                               !.last = [op |-> "report",
                                         total |-> Len(gong.all_users),
                                         success_count |-> gong.success_count,
                                         fail_count |-> gong.fail_count,
                                         delivered |-> ok]]
    /\ UNCHANGED <<beside, users, user_states, now, banned, th, intact, delivered,
                   written, last, calls>>

\* The text of a broadcast has been submitted and the message with the two
\* buttons is shown.
\* The state after construction with `sizes` the numbers of registered users
\* considered and `g` the broadcast on the screen of the admin.
InitAdmin(sizes, g) ==
    /\ \E m \in sizes : users = [id \in 1..m |->
                                    [username |-> "user", first_name |-> "user",
                                     created_at |-> 0]]
    /\ gong = g
    /\ user_states = EmptyTable
    /\ now = 0
    /\ th = [t \in Threads |-> IdleThread]
    /\ banned = NoBans
    /\ intact = [u \in Users |-> FALSE]
    /\ delivered = [u \in Users |-> 0]
    /\ written = [u \in Users |-> EmptyDict]
    /\ last = [op |-> "none"]
    /\ calls = 0
    /\ trains = DefaultTrains
    /\ editing_users = {}
    /\ main = NewMain
    /\ runs = NoRuns

InitGong == InitAdmin(Sizes, [NoGong EXCEPT !.buttons = TRUE])

NextGong ==
    \/ \E c \in Callers, begun \in BOOLEAN, report_ok \in BOOLEAN :
          ExecuteGong(c, begun, report_ok)
    \/ GongStep
    \/ GongFinish

SpecGong == InitGong /\ [][NextGong]_vars

(***************************************************************************)
(* The confirm button pressed more than once (admin/gong.py,               *)
(* _execute_gong; main.py, TeleBot(threaded=True, num_threads=4)).  Each   *)
(* press is a callback query of its own that carries the message with the  *)
(* two buttons as it was when the button was pressed; the handlers of two  *)
(* callbacks run one after the other or side by side on two workers.       *)
(* `received` is history: the recipients a send of the run has reached;    *)
(* `window` is history too: the ages, when the last send of the run was    *)
(* made, of the sends made less than period_seconds before it, that send   *)
(* with its age of 0 among them; `after` is the time that send took.       *)
(***************************************************************************)
\* The ages `gap` seconds later of the sends still younger than `period`.
Aged(window, gap, period) ==
    LET young(age) == age < period
    IN  SelectSeq([k \in 1..Len(window) |-> window[k] + gap], young)

PressConfirm(d) ==
    /\ gong.buttons
    /\ runs[d].st = "none"
    /\ runs' = [runs EXCEPT ![d] = [st |-> "queued"]]
    /\ UNCHANGED <<trains, editing_users, main, users, gong, user_states, now,
                   banned, th, intact, delivered, written, last, calls>>

\* _execute_gong, for an admin: the text is taken from the message the
\* callback carries, the recipients are read, the message is replaced by
\* "in progress" (that call is made, or it raises) and the loop begins.
execute_gong(rs, d, all_users) ==
    [rs EXCEPT ![d] = [st |-> "run", g |-> NewGong(all_users),
                       received |-> {}, window |-> <<>>, after |-> 0]]

ConfirmGong(d, begun) ==
    /\ runs[d].st = "queued"
    /\ runs' = IF begun THEN execute_gong(runs, d, get_all_user_ids(users))
               ELSE [runs EXCEPT ![d] = [st |-> "raised"]]
    /\ gong' = IF begun THEN [gong EXCEPT !.buttons = FALSE] ELSE gong
    /\ UNCHANGED <<trains, editing_users, main, users, user_states, now,
                   banned, th, intact, delivered, written, last, calls>>

RunStep(d) ==
    /\ runs[d].st = "run"
    /\ ~runs[d].g.done
    /\ runs[d].g.i < Len(runs[d].g.all_users)
    /\ \E dt \in SendTimes, ok \in BOOLEAN, progress_ok \in BOOLEAN :
          runs' = [runs EXCEPT
                      ![d].g = gong_iteration(@, dt, ok, progress_ok),
                      ![d].received =
                          IF ok THEN @ \cup {runs[d].g.all_users[runs[d].g.i + 1]}
                          ELSE @,
                      ![d].window =
                          Append(Aged(@, runs[d].after
                                         + wait_if_needed(runs[d].g.rate_limiter).slept,
                                      GONG_DELAY), 0),
                      ![d].after = dt]
    /\ UNCHANGED <<trains, editing_users, main, users, gong, user_states, now,
                   banned, th, intact, delivered, written, last, calls>>

RunFinish(d) ==
    /\ runs[d].st = "run"
    /\ ~runs[d].g.done
    /\ runs[d].g.i = Len(runs[d].g.all_users)
    /\ runs' = [runs EXCEPT ![d].g.done = TRUE]
    /\ UNCHANGED <<trains, editing_users, main, users, gong, user_states, now,
                   banned, th, intact, delivered, written, last, calls>>

TwiceSizes == {1, 2}

InitTwice == InitAdmin(TwiceSizes, [NoGong EXCEPT !.buttons = TRUE])

NextTwice ==
    \/ \E d \in Deliveries : PressConfirm(d)
    \/ \E d \in Deliveries, begun \in BOOLEAN : ConfirmGong(d, begun)
    \/ \E d \in Deliveries : RunStep(d)
    \/ \E d \in Deliveries : RunFinish(d)

SpecTwice == InitTwice /\ [][NextTwice]_vars

\* One run on its own, over recipients enough for the limiter to reach its
\* limit twice.
LimiterSizes == {GONG_RATE_LIMIT, 2 * GONG_RATE_LIMIT}

InitLimiter == InitAdmin(LimiterSizes, [NoGong EXCEPT !.buttons = TRUE])

NextLimiter ==
    \/ PressConfirm(1)
    \/ \E begun \in BOOLEAN : ConfirmGong(1, begun)
    \/ RunStep(1)
    \/ RunFinish(1)

SpecLimiter == InitLimiter /\ [][NextLimiter]_vars

(***************************************************************************)
(* admin/gong.py: how a broadcast comes to be shown, confirmed and         *)
(* cancelled.  One broadcast is shown and one run is made at a time.       *)
(***************************************************************************)
MAX_GONG_TEXT_LENGTH == 3

\* The texts an admin submits: a good one, a blank one, one too long.
GongTexts == {<<"h", "i">>, <<" ">>, <<"l", "o", "n", "g">>}

\* The sizes of the table users where a run is followed step by step beside
\* other handlers.
SmallSizes == {0, 1, GONG_RATE_LIMIT, GONG_RATE_LIMIT + 1}

\* /gong
StartGong(caller, ok, report_ok) ==
    /\ gong' = IF caller \in ADMINS
               THEN [gong EXCEPT !.waiting_for_text = @ \cup {caller}]
               ELSE gong
    /\ last' = [op |-> "gong", caller |-> caller,
                out |-> IF caller \notin ADMINS THEN Ignored
                        ELSE Outcome("ask_text", ok, TRUE, report_ok)]
    /\ UNCHANGED <<beside, users, user_states, now, banned, th, intact, delivered,
                   written, calls>>

\* a text sent by one of waiting_for_text: if it is valid and there are
\* users, the message with the two buttons is sent
HandleGongText(caller, text, ok, report_ok) ==
    /\ caller \in gong.waiting_for_text
    /\ LET shown == /\ validate_text_length(Strip(text), MAX_GONG_TEXT_LENGTH).valid
                    /\ get_all_user_ids(users) # <<>>
                    /\ ok
       IN  /\ gong' = IF caller \notin ADMINS THEN gong
                      ELSE IF ~shown
                      THEN [gong EXCEPT !.waiting_for_text = @ \ {caller}]
                      ELSE [gong EXCEPT !.waiting_for_text = @ \ {caller},
                                        !.buttons = TRUE,
                                        !.cancelled = @ /\ gong.running]
           /\ last' = [op |-> "gong_text", caller |-> caller,
                       out |-> IF caller \notin ADMINS THEN Ignored
                               ELSE Outcome("reply", ok, TRUE, report_ok)]
    /\ UNCHANGED <<beside, users, user_states, now, banned, th, intact, delivered,
                   written, calls>>

\* A cancel that ends the run.
cancel_gong_stopping(g, edit_ok) ==
    [g EXCEPT !.buttons = @ /\ ~edit_ok,
              !.done = @ \/ g.running,
              !.cancelled = @ \/ ~g.running,
              !.interrupted = @ \/ (g.running /\ ~g.done)]

\* _cancel_gong, for an admin: the message of the buttons is replaced by
\* the notice of the cancellation, if that edit is made; nothing else is
\* recorded
cancel_gong(g, edit_ok) ==
    [g EXCEPT !.buttons = @ /\ ~edit_ok,
              !.cancelled = @ \/ ~g.running,
              !.interrupted = @ \/ (g.running /\ ~g.done)]

\* The cancel button of the broadcast shown, pressed by `caller`.  The
\* except clause of _cancel_gong sends nothing.
CancelGong(caller, ok) ==
    /\ gong.buttons
    /\ gong' = IF caller \in ADMINS THEN cancel_gong(gong, ok) ELSE gong
    /\ last' = [op |-> "gong_cancel", caller |-> caller,
                out |-> Outcome(IF caller \in ADMINS THEN "cancelled"
                                ELSE "no_access", ok, FALSE, FALSE)]
    /\ UNCHANGED <<beside, users, user_states, now, banned, th, intact, delivered,
                   written, calls>>

InitConfirm == InitAdmin(SmallSizes, NoGong)

NextConfirm ==
    \/ \E c \in Callers, ok \in BOOLEAN, report_ok \in BOOLEAN :
          StartGong(c, ok, report_ok)
    \/ \E c \in Callers, text \in GongTexts, ok \in BOOLEAN,
          report_ok \in BOOLEAN : HandleGongText(c, text, ok, report_ok)
    \/ \E c \in Callers, ok \in BOOLEAN : CancelGong(c, ok)
    \/ \E c \in Callers, begun \in BOOLEAN, report_ok \in BOOLEAN :
          ExecuteGong(c, begun, report_ok)
    \/ GongStep
    \/ GongFinish

SpecConfirm == InitConfirm /\ [][NextConfirm]_vars

\* Each send and each wait of the limiter returns.
SpecConfirmFair ==
    /\ SpecConfirm
    /\ WF_vars(GongStep)
    /\ WF_vars(GongFinish)

(***************************************************************************)
(* The run beside the handlers of other events.  TeleBot(threaded=True,    *)
(* num_threads=4) hands each event to a worker of its pool; the run of a   *)
(* broadcast occupies the worker that handles the press of confirm, and    *)
(* the workers modelled here are two of the others.  Every method of       *)
(* Database takes self.lock for the length of its own call.                *)
(***************************************************************************)

\* A run that keeps the lock of the store until it ends.
lock_held_during_run(g) == g.running /\ ~g.done

\* The lock of the store as the run leaves it between its steps: the one
\* call the run makes to the store, get_all_user_ids, takes the lock and
\* releases it before the first send; the loop calls only the limiter and
\* the bot.
lock_held_by_run(g) == FALSE

\* A step of a handler that calls the store: `with self.lock:`
WithLock(A) == ~lock_held_by_run(gong) /\ A

\* The steps of the handler of /start in worker t.
StartStep(t) ==
    \/ WithLock(DoIsBannedStart(t))
    \/ WithLock(DoAddUser(t))
    \/ DoSend(t)

InitServe == InitAdmin({1, GONG_RATE_LIMIT + 1}, [NoGong EXCEPT !.buttons = TRUE])

NextServe ==
    \/ \E c \in Callers, begun \in BOOLEAN, report_ok \in BOOLEAN :
          ExecuteGong(c, begun, report_ok)
    \/ GongStep
    \/ GongFinish
    \/ \E t \in Threads, id \in BanIds : CmdStart(t, id)
    \/ \E t \in Threads : StartStep(t)

SpecServe == InitServe /\ [][NextServe]_vars

(***************************************************************************)
(* The reference list: admin/trains.py and the table trains of             *)
(* database.py.  A name is a sequence of characters, the text of a message *)
(* is one too, its lines parted by "\n".                                   *)
(*                                                                         *)
(* A handler of the admin modules leaves in `last` what it did: the        *)
(* messages it sent (sent) and whether an exception left it (escaped).     *)
(* Every send of a handler is made or raises.                              *)
(***************************************************************************)
MaxText == 5

\* The texts an admin submits: the lists of names made of A and B, and
\* some texts with blanks, a blank line and a line that is a command.
ListTexts ==
    UNION {[1..n -> {"A", "B", "\n"}] : n \in 1..MaxText}
    \cup {<<" ", "A", " ", "\n", "\n", "B">>, <<"/", "A", "\n", "B", "\n", "A">>,
          <<"/", "A">>, <<"A", " ", "B", "\n", "A", "/">>}

Range(seq) == {seq[i] : i \in DOMAIN seq}

\* str.split(sep)
RECURSIVE Split(_, _)
Split(text, sep) ==
    IF \A i \in DOMAIN text : text[i] # sep THEN <<text>>
    ELSE LET k == CHOOSE i \in DOMAIN text :
                      text[i] = sep /\ \A j \in 1..(i - 1) : text[j] # sep
         IN  <<SubSeq(text, 1, k - 1)>>
                 \o Split(SubSeq(text, k + 1, Len(text)), sep)

\* _handle_edit: the stripped lines that are neither empty nor a command
RECURSIVE parse_lines(_)
parse_lines(lines) ==
    IF lines = <<>> THEN <<>>
    ELSE LET line == Strip(Head(lines))
         IN  (IF line # <<>> /\ Head(line) # "/" THEN <<line>> ELSE <<>>)
                 \o parse_lines(Tail(lines))

\* _handle_edit: the duplicates dropped, the first occurrences in their order
RECURSIVE unique_trains(_, _)
unique_trains(names, seen) ==
    IF names = <<>> THEN <<>>
    ELSE IF Head(names) \in seen THEN unique_trains(Tail(names), seen)
    ELSE <<Head(names)>> \o unique_trains(Tail(names), seen \cup {Head(names)})

\* INSERT OR IGNORE INTO trains (name): name is UNIQUE
RECURSIVE insert_or_ignore(_, _)
insert_or_ignore(tbl, names) ==
    IF names = <<>> THEN tbl
    ELSE insert_or_ignore(IF Head(names) \in Range(tbl) THEN tbl
                          ELSE Append(tbl, Head(names)),
                          Tail(names))

\* A set_trains that deletes nothing.
set_trains_kept(tbl, names) == insert_or_ignore(tbl, names)

\* Database.set_trains: DELETE FROM trains, then the inserts
set_trains(tbl, names) == insert_or_ignore(<<>>, names)

\* The code point of a character.
Ord(ch) ==
    CASE ch = "\n" -> 10 [] ch = " " -> 32 [] ch = "/" -> 47
      [] ch = "A" -> 65 [] ch = "B" -> 66

\* The order of two names under the collation of the column (BINARY).
RECURSIVE Before(_, _)
Before(a, b) ==
    IF a = <<>> THEN b # <<>>
    ELSE IF b = <<>> THEN FALSE
    ELSE IF Head(a) = Head(b) THEN Before(Tail(a), Tail(b))
    ELSE Ord(Head(a)) < Ord(Head(b))

RECURSIVE OrderByName(_)
OrderByName(names) ==
    IF names = {} THEN <<>>
    ELSE LET first == CHOOSE n \in names : \A o \in names \ {n} : Before(n, o)
         IN  <<first>> \o OrderByName(names \ {first})

\* Database.get_trains: SELECT name FROM trains ORDER BY name
get_trains(tbl) == OrderByName(Range(tbl))

\* /trains
ShowTrains(caller, ok, report_ok) ==
    /\ last' = [op |-> "trains", caller |-> caller,
                out |-> IF caller \notin ADMINS THEN Ignored
                        ELSE Outcome("list", ok, TRUE, report_ok),
                trains |-> IF caller \in ADMINS /\ ok THEN get_trains(trains)
                           ELSE <<>>]
    /\ UNCHANGED <<trains, editing_users, main, users, gong, user_states, now,
                   banned, th, intact, delivered, written, calls, runs>>

\* /edittrains
StartEdit(caller, ok, report_ok) ==
    /\ editing_users' = IF caller \in ADMINS THEN editing_users \cup {caller}
                        ELSE editing_users
    /\ last' = [op |-> "edittrains", caller |-> caller,
                out |-> IF caller \notin ADMINS THEN Ignored
                        ELSE Outcome("instructions", ok, TRUE, report_ok)]
    /\ UNCHANGED <<trains, main, users, gong, user_states, now,
                   banned, th, intact, delivered, written, calls, runs>>

\* the cancel label, sent by one of editing_users
CancelEdit(caller, ok) ==
    /\ caller \in editing_users
    /\ editing_users' = IF caller \in ADMINS THEN editing_users \ {caller}
                        ELSE editing_users
    /\ last' = [op |-> "cancel_edit", caller |-> caller,
                out |-> IF caller \notin ADMINS THEN Ignored
                        ELSE Outcome("cancelled", ok, FALSE, FALSE)]
    /\ UNCHANGED <<trains, main, users, gong, user_states, now,
                   banned, th, intact, delivered, written, calls, runs>>

\* any other text sent by one of editing_users: the new list
HandleEdit(caller, text, ok, report_ok) ==
    /\ caller \in editing_users
    /\ \E names \in {parse_lines(Split(Strip(text), "\n"))} :
       \E unique \in {unique_trains(names, {})} :
           IF caller \notin ADMINS
           THEN /\ last' = [op |-> "handle_edit", caller |-> caller,
                            out |-> Ignored, stored |-> FALSE]
                /\ UNCHANGED <<trains, editing_users, runs>>
           ELSE /\ editing_users' = editing_users \ {caller}
                /\ trains' = IF names = <<>> THEN trains
                             ELSE set_trains(trains, unique)
                /\ last' = [op |-> "handle_edit", caller |-> caller,
                            out |-> Outcome(IF names = <<>> THEN "empty_list"
                                            ELSE "updated",
                                            ok, TRUE, report_ok),
                            stored |-> names # <<>>,
                            trains |-> names,
                            duplicates |-> Len(names) - Len(unique)]
    /\ UNCHANGED <<main, users, gong, user_states, now,
                   banned, th, intact, delivered, written, calls, runs>>

NextTrains ==
    \/ \E c \in Callers, ok \in BOOLEAN, report_ok \in BOOLEAN :
          ShowTrains(c, ok, report_ok)
    \/ \E c \in Callers, ok \in BOOLEAN, report_ok \in BOOLEAN :
          StartEdit(c, ok, report_ok)
    \/ \E c \in Callers, ok \in BOOLEAN : CancelEdit(c, ok)
    \/ \E c \in Callers, text \in ListTexts, ok \in BOOLEAN,
          report_ok \in BOOLEAN : HandleEdit(c, text, ok, report_ok)

SpecTrains == InitWizard /\ [][NextTrains]_vars

(***************************************************************************)
(* The admin actions together, each invoked by an admin or by another      *)
(* user: the commands and buttons of admin/ban.py, admin/gong.py and       *)
(* admin/trains.py and the two commands of main.py.  `last` holds what the *)
(* handler sent and whether an exception left it.                          *)
(***************************************************************************)
AdminCommands ==
    {"ban", "unban", "banlist", "recent", "gong", "trains", "edittrains",
     "help", "stats"}

AdminCallbacks == {"ban_user_", "unban_user_", "gong_confirm_", "gong_cancel"}

InitAllAdmin == InitAdmin({1, 2}, NoGong)

NextAdmin ==
    \/ \E c \in Callers, arg \in BanArgs, reason \in Reasons, ok \in BOOLEAN,
          report_ok \in BOOLEAN :
          HandleBan(c, arg, reason, ok, report_ok)
    \/ \E c \in Callers, arg \in BanArgs, ok \in BOOLEAN, report_ok \in BOOLEAN :
          HandleUnban(c, arg, ok, report_ok)
    \/ \E c \in Callers, id \in BanIds, ban \in BOOLEAN, ok \in BOOLEAN,
          report_ok \in BOOLEAN : CallbackBanUser(c, id, ban, ok, report_ok)
    \/ \E cmd \in ReadCommands, c \in Callers, ok \in BOOLEAN,
          report_ok \in BOOLEAN : ReadCommand(cmd, c, ok, report_ok)
    \/ \E c \in Callers, ok \in BOOLEAN, report_ok \in BOOLEAN :
          ShowTrains(c, ok, report_ok)
    \/ \E c \in Callers, ok \in BOOLEAN, report_ok \in BOOLEAN :
          StartEdit(c, ok, report_ok)
    \/ \E c \in Callers, ok \in BOOLEAN : CancelEdit(c, ok)
    \/ \E c \in Callers, ok \in BOOLEAN, report_ok \in BOOLEAN :
          StartGong(c, ok, report_ok)
    \/ \E c \in Callers, text \in GongTexts, ok \in BOOLEAN,
          report_ok \in BOOLEAN : HandleGongText(c, text, ok, report_ok)
    \/ \E c \in Callers, begun \in BOOLEAN, report_ok \in BOOLEAN :
          ExecuteGong(c, begun, report_ok)
    \/ \E c \in Callers, ok \in BOOLEAN : CancelGong(c, ok)

SpecAdmin == InitAllAdmin /\ [][NextAdmin]_vars

(***************************************************************************)
(* main.py: the serving loop of run() and the keepalive thread, which is   *)
(* the only thread run() starts (_cleanup_task is never started).  The     *)
(* keepalive thread and the workers are daemon threads: they end when the  *)
(* main thread leaves run().                                               *)
(***************************************************************************)
MaxReturns == 1

\* run(): max_retries = 10
MAX_RETRIES == 10

\* A wait that doubles without a cap.
wait_time_uncapped(retry_count) == 5 * 2 ^ (retry_count - 1)

\* run(): wait_time = min(5 * (2 ** (retry_count - 1)), 60)
wait_time(retry_count) == Min(5 * 2 ^ (retry_count - 1), 60)

\* run(): while self.running and retry_count < max_retries
Loop(m) ==
    [m EXCEPT !.serving = IF m.running /\ m.retry_count < MAX_RETRIES
                          THEN "polling" ELSE "stopped"]

\* infinity_polling raises
PollingRaises ==
    /\ main.serving = "polling"
    /\ LET retry_count == main.retry_count + 1
       IN  main' = IF retry_count < MAX_RETRIES
                   THEN [main EXCEPT !.retry_count = retry_count,
                                     !.waits = Append(@, wait_time(retry_count)),
                                     !.serving = "waiting"]
                   ELSE [main EXCEPT !.retry_count = retry_count,
                                     !.serving = "stopped"]
    /\ UNCHANGED <<trains, editing_users, users, gong, user_states, now,
                   banned, th, intact, delivered, written, last, calls, runs>>

\* time.sleep(wait_time) is over
Restart ==
    /\ main.serving = "waiting"
    /\ main' = Loop(main)
    /\ UNCHANGED <<trains, editing_users, users, gong, user_states, now,
                   banned, th, intact, delivered, written, last, calls, runs>>

\* infinity_polling returns
PollingReturns ==
    /\ main.serving = "polling"
    /\ main.returns < MaxReturns
    /\ main' = Loop([main EXCEPT !.returns = @ + 1])
    /\ UNCHANGED <<trains, editing_users, users, gong, user_states, now,
                   banned, th, intact, delivered, written, last, calls, runs>>

\* _signal_handler: SIGINT or SIGTERM
Signal ==
    /\ main.serving # "stopped"
    /\ main' = [main EXCEPT !.running = FALSE, !.serving = "stopped"]
    /\ UNCHANGED <<trains, editing_users, users, gong, user_states, now,
                   banned, th, intact, delivered, written, last, calls, runs>>

\* _keepalive_task: a sleep is over (the first, of 30 seconds, the one
\* after a round, or the longer one after a ping that raised)
KeepaliveWake ==
    /\ main.serving # "stopped"
    /\ main.running
    /\ main.keepalive \in {"sleep", "sleep_longer"}
    /\ main' = [main EXCEPT !.keepalive = "get_me"]
    /\ UNCHANGED <<trains, editing_users, users, gong, user_states, now,
                   banned, th, intact, delivered, written, last, calls, runs>>

\* _keepalive_task: self.bot.get_me() is answered (ping_ok) or raises
KeepalivePing(ping_ok) ==
    /\ main.serving # "stopped"
    /\ main.keepalive = "get_me"
    /\ main' = [main EXCEPT !.keepalive = IF ping_ok THEN "cleanup"
                                          ELSE "sleep_longer"]
    /\ UNCHANGED <<trains, editing_users, users, gong, user_states, now,
                   banned, th, intact, delivered, written, last, calls, runs>>

\* _keepalive_task: self.db.cleanup_old_states(STATE_TIMEOUT)
KeepaliveCleanup ==
    /\ main.serving # "stopped"
    /\ main.keepalive = "cleanup"
    /\ main' = [main EXCEPT !.keepalive = "sleep"]
    /\ user_states' = cleanup_old_states(user_states, STATE_TIMEOUT, now)
    /\ written' = [u \in Users |-> WrittenAfter(written[u], user_states', u)]
    /\ intact' = [u \in Users |->
                    intact[u] /\ (u \in DOMAIN user_states => u \in DOMAIN user_states')]
    /\ last' = [op |-> "cleanup", at |-> now]
    /\ UNCHANGED <<trains, editing_users, users, gong, now, banned, th,
                   delivered, calls, runs>>

\* The keepalive thread takes its next step.
KeepaliveStep ==
    \/ KeepaliveWake
    \/ \E ping_ok \in BOOLEAN : KeepalivePing(ping_ok)
    \/ KeepaliveCleanup

\* A handler writes the record of a user while the process serves.
Serve(user_id, state) ==
    /\ main.serving # "stopped"
    /\ SetStep(user_id, state)

NextMain ==
    \/ PollingRaises
    \/ Restart
    \/ PollingReturns
    \/ Signal
    \/ KeepaliveWake
    \/ \E ping_ok \in BOOLEAN : KeepalivePing(ping_ok)
    \/ KeepaliveCleanup
    \/ \E u \in Users : Serve(u, LINE)
    \/ Tick

SpecMain == InitWizard /\ [][NextMain]_vars

\* The keepalive thread goes round after round, and time passes.
SpecMainFair ==
    /\ SpecMain
    /\ WF_vars(KeepaliveStep)
    /\ WF_vars(Tick)

(***************************************************************************)
(* The claims about the conversation state engine.                         *)
(***************************************************************************)
HasRecord(user_id) == user_id \in DOMAIN user_states

\* Every key written since the record was last deleted holds the value last
\* written for it.
WrittenKept(user_id) ==
    \A k \in DOMAIN written[user_id] :
        /\ HasRecord(user_id)
        /\ k \in DOMAIN get_data(user_states, user_id)
        /\ get_data(user_states, user_id)[k] = written[user_id][k]

\* C6: every mutation of a conversation record is one atomic
\* read-modify-write, no other call on the user taking effect between its
\* read and its write: so once the concurrent calls have returned, every key
\* they wrote is in the record with the value last written (two concurrent
\* setField calls on different keys both remain).
C6_AtomicReadModifyWrite ==
    (\A t \in Threads : ~Running(t)) => \A u \in Users : WrittenKept(u)

\* C7: over any sequence of setStep / setField / mergeFields calls with no
\* clear and no sweep deletion in between, every key that was set maps to
\* the value last written for it, and a setStep leaves the mapping as it
\* found it.
C7_DataNeverDropped ==
    /\ \A u \in Users : WrittenKept(u)
    /\ last.op = "set_state"
       => get_data(user_states, last.user_id) = DataOf(last.before)

\* Both keys were written, and the last call was a setStep that changed the
\* step of a record holding them.
C7_Witness ==
    /\ last.op = "set_state"
    /\ Truthy(last.before)
    /\ last.before.state # last.state
    /\ DOMAIN written[last.user_id] = EngineKeys
    /\ HasRecord(last.user_id)

\* C8: setStep is idempotent: after setStep(u, s) a second setStep(u, s)
\* leaves the same step and the same data mapping, and the data mapping is
\* the one that existed before the first call.
C8_SetStepIdempotent ==
    last.op = "set_state" =>
        LET u == last.user_id
            twice == set_state(user_states, u, last.state, now)
        IN  /\ get_state(user_states, u) = last.state
            /\ get_state(twice, u) = get_state(user_states, u)
            /\ get_data(twice, u) = get_data(user_states, u)
            /\ twice[u].state_data = user_states[u].state_data
            /\ get_data(user_states, u) = DataOf(last.before)

\* A setStep to another step was made on a record that holds answers.
C8_Witness ==
    /\ last.op = "set_state"
    /\ Truthy(last.before)
    /\ DataOf(last.before) # EmptyDict
    /\ last.before.state # last.state
    /\ HasRecord(last.user_id)

\* The keys and values a setField or mergeFields call was given.
GivenFields ==
    IF last.op = "set_data" THEN DictSet(EmptyDict, last.key, last.value)
    ELSE last.updates

\* C10: setField and mergeFields on a user with no record create a record
\* at Idle whose data mapping holds exactly the given fields; on a user with
\* a record they keep the step and every other key.
C10_SetFieldCreatesOrKeeps ==
    last.op \in {"set_data", "update_data"} =>
        LET u == last.user_id
            after == get_user_state(user_states, u)
        IN  /\ HasRecord(u)
            /\ last.before = None =>
                  after = [state |-> IDLE, data |-> GivenFields]
            /\ last.before # None =>
                  /\ after.state = last.before.state
                  /\ DOMAIN after = {"state", "data"}
                  /\ after.data = DictUpdate(DataOf(last.before), GivenFields)

\* A mergeFields of two fields has just created the record.
C10_Witness ==
    /\ last.op = "update_data"
    /\ last.before = None
    /\ DOMAIN last.updates = EngineKeys
    /\ HasRecord(last.user_id)

(***************************************************************************)
(* The claims about the wizard.                                            *)
(***************************************************************************)
\* The handler run by thread t has passed its step check and has returned.
Finished(t) == ~Running(t) /\ th[t].passed

\* The calls of a kind that the handler of thread t set out to make.
Planned(t, op) == {th[t].plan[i] : i \in {j \in 1..Len(th[t].plan) :
                                             th[t].plan[j].op = op}}

\* The answers the handler of thread t set out to store.
PlannedAnswers(t) ==
    LET puts == {c \in Planned(t, "put_data") : c.key # "last_msg"}
        merged == Planned(t, "put_updates")
    IN  {<<c.key, c.value>> : c \in puts}
        \cup UNION {{<<k, c.updates[k]>> : k \in DOMAIN c.updates} : c \in merged}

\* The handler of thread t takes the wizard one step on.
IsStep(t) ==
    /\ th[t].kind \notin {"none", "start_report", "confirm_action"}
    /\ Planned(t, "put_state") # {}

Holds(data, answers) ==
    \A a \in answers : a[1] \in DOMAIN data /\ data[a[1]] = a[2]

C2_ClearedAfterConfirm ==
    \A t \in Threads :
        (Finished(t) /\ th[t].kind = "confirm_action") =>
            ~HasRecord(th[t].user_id)

\* C3: a publish is reported as failed to the submitter only after all
\* three delivery attempts have been made and have failed.
C3_FailedOnlyAfterAllAttempts ==
    \A t \in Threads :
        th[t].reported = "failed" => th[t].attempts = PUBLISH_MAX_RETRIES

\* C4: in one wizard run the report is delivered to the channel at most
\* once, however often the publish button is pressed and whichever messages
\* to the submitter fail.
C4_DeliveredAtMostOnce ==
    \A u \in Users : delivered[u] <= 1

\* C5: when the handler of a wizard step has returned, with the sweep run
\* at any point of it, the record is absent or holds the new step, every
\* answer accumulated before the step and the new answer.
C5_SweepDoesNotCorrupt ==
    \A t \in Threads :
        (Finished(t) /\ IsStep(t) /\ HasRecord(th[t].user_id)) =>
            LET data == get_data(user_states, th[t].user_id)
            IN  /\ \A c \in Planned(t, "put_state") :
                      get_state(user_states, th[t].user_id) = c.state
                /\ \A k \in DOMAIN th[t].snap \ {"last_msg"} :
                      k \in DOMAIN data
                /\ Holds(data, PlannedAnswers(t))

\* C9: every persisted conversation record has a step, one of the wizard's
\* steps and never Idle.
C9_NoIdleRecord ==
    \A u \in DOMAIN user_states :
        /\ "state" \in DOMAIN user_states[u].state_data
        /\ user_states[u].state_data.state \in States \ {IDLE}

\* C11: for a user with no conversation record (never created, cleared or
\* swept), getStep returns Idle and getData returns the empty mapping, and
\* after the read the user still has no record.
C11_ReadsOfNoRecord ==
    (last.op \in {"get_state", "get_data"} /\ last.before = None) =>
        /\ ~HasRecord(last.user_id)
        /\ last.op = "get_state" => last.result = IDLE
        /\ last.op = "get_data" => last.result = EmptyDict

\* getStep has been called for a user whose record had just been swept.
C11_Witness ==
    /\ last.op = "get_state"
    /\ last.before = None
    /\ last.after = "cleanup"
    /\ ~HasRecord(last.user_id)

\* The order of the wizard's steps: the steps that follow a step.
Successors(state) ==
    CASE state = IDLE -> {LINE}
      [] state = LINE -> {TRAIN}
      [] state = TRAIN -> {TRAIN_MANUAL, STATION}
      [] state = TRAIN_MANUAL -> {STATION}
      [] state = STATION -> {DIRECTION}
      [] state = DIRECTION -> {TIME}
      [] state = TIME -> {ROUTE_CHOICE}
      [] state = ROUTE_CHOICE -> {ROUTE_MANUAL, COMMENT}
      [] state = ROUTE_MANUAL -> {COMMENT}
      [] state = COMMENT -> {CONFIRM}
      [] state = CONFIRM -> {IDLE}

\* C12: a user's step changes only to a step that follows the current one
\* in the order of the wizard, or to Line (re-entry), or to Idle (the
\* record is deleted).
C12_LinearOrder ==
    [][\A u \in Users :
          LET from == get_state(user_states, u)
              to == get_state(user_states', u)
          IN  to # from => to \in Successors(from) \cup {LINE, IDLE}]_vars

\* The step at which the handlers that validate an answer take it.
StepOfKind(kind) ==
    CASE kind = "select_line" -> LINE
      [] kind = "manual_train" -> TRAIN_MANUAL
      [] kind = "route_choice" -> ROUTE_CHOICE
      [] kind = "manual_route" -> ROUTE_MANUAL
      [] kind = "comment_input" -> COMMENT

\* The handler of thread t has rejected the answer: it set out to store no
\* answer and to make no step.
Rejected(t) ==
    /\ th[t].passed
    /\ th[t].kind \in {"select_line", "manual_train", "route_choice",
                       "manual_route", "comment_input"}
    /\ Planned(t, "put_state") = {}
    /\ PlannedAnswers(t) = {}

\* The answers of a data mapping: all of it but the id of the last message.
Answers(data) == [k \in DOMAIN data \ {"last_msg"} |-> data[k]]

C14_MissingFieldAborts ==
    \A t \in Threads :
        th[t].lacking =>
            /\ "confirm_prompt" \notin th[t].tried
            /\ Planned(t, "publish") = {}
            /\ delivered[th[t].user_id] = 0
            /\ ~Running(t) =>
                  /\ "generic_error" \in th[t].tried
                  /\ ~HasRecord(th[t].user_id)

\* The comment was stored in a record that had lost its other answers, and
\* _show_confirm has returned.
C14_Witness ==
    \E t \in Threads :
        /\ th[t].lacking
        /\ ~Running(t)
        /\ th[t].kind = "comment_input"
        /\ "generic_error" \in th[t].tried

\* C15: while a ban record exists for a user, the ban check of a wizard
\* entry or of a /start of that user rejects it: the handler does nothing
\* but send the notice, no conversation record is created or changed, and
\* the user is not recorded.
C15_BannedIsRejected ==
    [][\A t \in Threads :
          (/\ Running(t)
           /\ NextOp(t).op \in {"is_banned", "is_banned_start"}
           /\ th[t].user_id \in BannedIds(banned)
           /\ th'[t] # th[t]) =>
              /\ th'[t].prog = <<Send("banned_notice")>>
              /\ ~th'[t].passed
              /\ user_states' = user_states
              /\ users' = users]_vars

\* A banned user who has a conversation record has tried to enter the
\* wizard again, and was sent the notice.
C15_Witness ==
    \E t \in Threads :
        /\ th[t].kind = "start_report"
        /\ ~Running(t)
        /\ ~th[t].passed
        /\ "banned_notice" \in th[t].tried
        /\ th[t].user_id \in BannedIds(banned)
        /\ HasRecord(th[t].user_id)

\* C16: a ban record for a user id exists only if a User record for that
\* id exists.
C16_BanImpliesUser ==
    \A id \in BannedIds(banned) : id \in DOMAIN users

(***************************************************************************)
(* The claims about the broadcast.                                         *)
(***************************************************************************)
\* C17: a run over a list of M recipients makes exactly one send to each
\* recipient, in the order of the list, whether the sends are made or
\* raise, and the final report has total = M and succeeded + failed = M.
C17_EveryRecipientOnce ==
    gong.running =>
        /\ gong.attempts = SubSeq(gong.all_users, 1, gong.i)
        /\ gong.success_count + gong.fail_count = gong.i
        /\ gong.done =>
              /\ Len(gong.attempts) = Len(gong.all_users)
              /\ gong.last.total = Len(gong.all_users)
              /\ gong.last.success_count + gong.last.fail_count
                    = gong.last.total

\* A run in which sends were made and sends raised has made its report.
C17_Witness ==
    /\ gong.running /\ gong.done
    /\ Len(gong.all_users) > GONG_RATE_LIMIT
    /\ gong.success_count > 0
    /\ gong.fail_count > 1

\* C18, as amended: the throttle point comes immediately before every N-th
\* send of the run (i = N, 2N, ...): after N - 1 sends the first time and
\* after N sends since the previous throttle point from then on.  There the
\* run suspends for the remainder of the window if less than the window has
\* elapsed since the window start, and not otherwise, and the counter and
\* the window start are reset before that send.
C18_ThrottleBeforeEveryNth ==
    (gong.running /\ gong.last.op = "send") =>
        LET l == gong.last
        IN  /\ l.throttle <=> l.i % GONG_RATE_LIMIT = 0
            /\ l.throttle =>
                  /\ l.since = IF l.i = GONG_RATE_LIMIT
                               THEN GONG_RATE_LIMIT - 1 ELSE GONG_RATE_LIMIT
                  /\ l.slept = IF l.elapsed < GONG_DELAY
                               THEN GONG_DELAY - l.elapsed ELSE 0
                  /\ gong.rate_limiter.message_count = 0
                  /\ gong.rate_limiter.elapsed \in SendTimes
            /\ ~l.throttle =>
                  /\ l.slept = 0
                  /\ gong.rate_limiter.message_count = l.i % GONG_RATE_LIMIT

\* The run has suspended at its second throttle point.
C18_Witness ==
    /\ gong.running /\ gong.last.op = "send"
    /\ gong.last.i = 2 * GONG_RATE_LIMIT
    /\ gong.last.throttle
    /\ gong.last.slept > 0

\* C18, as stated: at every throttle point N sends have been issued since
\* the last throttle point.
C18_ThrottleAfterNSends ==
    (gong.running /\ gong.last.op = "send" /\ gong.last.throttle) =>
        gong.last.since = GONG_RATE_LIMIT

\* C19, as amended: a run reaches a throttle point if and only if M >= K,
\* and it pauses only at a throttle point where less than the window W has
\* elapsed since the window start; so a run with M < K never pauses, and a
\* run with M > K pauses only if its sends were fast enough.
C19_PausesOnlyWithinWindow ==
    gong.running =>
        /\ gong.paused => gong.throttled
        /\ gong.throttled <=> gong.i >= GONG_RATE_LIMIT
        /\ Len(gong.all_users) < GONG_RATE_LIMIT => ~gong.paused
        /\ gong.last.op = "send" =>
              (gong.last.slept > 0 <=>
                  gong.last.throttle /\ gong.last.elapsed < GONG_DELAY)

\* A run over more than K recipients has ended without a pause.
C19_Witness ==
    /\ gong.running /\ gong.done
    /\ Len(gong.all_users) > GONG_RATE_LIMIT
    /\ gong.throttled
    /\ ~gong.paused

\* C19, as stated: a run with M > K has paused at least once, a run with
\* M < K has not paused.
C19_PausesWhenOverLimit ==
    (gong.running /\ gong.done) =>
        /\ Len(gong.all_users) > GONG_RATE_LIMIT => gong.paused
        /\ Len(gong.all_users) < GONG_RATE_LIMIT => ~gong.paused

\* C20: after every 50th recipient the progress is reported, whether the
\* send to that recipient was made or raised, with the running counts.
C20_ProgressEveryFiftieth ==
    (/\ gong.running
     /\ gong.last.op = "send"
     /\ gong.last.i % PROGRESS_EVERY = 0) =>
        /\ gong.last.progress.made
        /\ gong.last.progress.success_count = gong.success_count
        /\ gong.last.progress.fail_count = gong.fail_count

(***************************************************************************)
(* The claims about the sweep, the reference list, the permissions and     *)
(* the serving loop.                                                       *)
(***************************************************************************)
\* C24: a sweep deletes every conversation record whose updated_at is older
\* than the timeout and keeps, as it is, every record updated within the
\* timeout; every write of a record (set_state, set_data, update_data)
\* sets its updated_at to the time of the write.
C24_SweepByAge ==
    [][/\ (last'.op = "cleanup" /\ last' # last) =>
             /\ \A u \in DOMAIN user_states :
                   IF now - user_states[u].updated_at > STATE_TIMEOUT
                   THEN u \notin DOMAIN user_states'
                   ELSE /\ u \in DOMAIN user_states'
                        /\ user_states'[u] = user_states[u]
             /\ DOMAIN user_states' \subseteq DOMAIN user_states
       /\ (/\ last'.op \in {"set_state", "set_data", "update_data"}
           /\ <<last, user_states>>' # <<last, user_states>>) =>
             /\ last'.user_id \in DOMAIN user_states'
             /\ user_states'[last'.user_id].updated_at = now]_vars

\* A sweep has kept a record as old as the timeout, no older.
C24_Witness ==
    /\ last.op = "cleanup"
    /\ \E u \in DOMAIN user_states :
          now - user_states[u].updated_at = STATE_TIMEOUT

\* The place of the first occurrence of a name in a list.
FirstAt(names, name) ==
    CHOOSE i \in DOMAIN names :
        names[i] = name /\ \A j \in 1..(i - 1) : names[j] # name

\* C26: after a replace the stored list, as read back, holds each distinct
\* name of the submission once, in the order of the first occurrences, and
\* the reported number of duplicates is the length of the submission less
\* the number of its distinct names.
C26_FirstOccurrenceOrder ==
    (last.op = "handle_edit" /\ last.stored) =>
        LET read == get_trains(trains)
        IN  /\ Range(read) = Range(last.trains)
            /\ Len(read) = Cardinality(Range(last.trains))
            /\ \A i, j \in DOMAIN read :
                  i < j => FirstAt(last.trains, read[i])
                              < FirstAt(last.trains, read[j])
            /\ last.duplicates
                  = Len(last.trains) - Cardinality(Range(last.trains))

\* C27: the stored list never holds a name twice, and after a replace its
\* names are those of the submitted list and no others.
C27_WholesaleNoDuplicates ==
    /\ \A i, j \in DOMAIN trains : trains[i] = trains[j] => i = j
    /\ (last.op = "handle_edit" /\ last.stored) =>
          Range(trains) = Range(last.trains)

\* A list with a duplicate has replaced the default list, of which a name
\* is gone.
C27_Witness ==
    /\ last.op = "handle_edit" /\ last.stored
    /\ last.duplicates > 0
    /\ \E name \in Range(DefaultTrains) : name \notin Range(trains)

Stale(u) ==
    /\ u \in DOMAIN user_states
    /\ now - user_states[u].updated_at > STATE_TIMEOUT

\* C25: while the process runs, a conversation record that is older than the
\* timeout is in the end deleted, unless it is touched again, whether or not
\* the pings of the keepalive thread are answered.
C25_StaleEventuallySwept ==
    \A u \in Users :
        [](Stale(u) => <>(~Stale(u) \/ main.serving = "stopped"))

\* C30: the k-th failure of polling is followed by a wait of
\* min(5 * 2^(k-1), 60) seconds (5, 10, 20, 40, 60, 60, ...) and a restart
\* as long as k < 10; the 10th failure ends the loop; and as long as fewer
\* than 10 failures have occurred and the bot is running, the loop goes on.
C30_BackoffAndCeiling ==
    /\ main.retry_count <= MAX_RETRIES
    /\ Len(main.waits) = IF main.retry_count < MAX_RETRIES
                         THEN main.retry_count ELSE MAX_RETRIES - 1
    /\ main.waits = SubSeq(<<5, 10, 20, 40, 60, 60, 60, 60, 60>>,
                           1, Len(main.waits))
    /\ main.retry_count = MAX_RETRIES => main.serving = "stopped"
    /\ (main.retry_count < MAX_RETRIES /\ main.running) =>
          main.serving # "stopped"

\* The tenth failure has ended the loop of a bot that was still running.
C30_Witness ==
    /\ main.retry_count = MAX_RETRIES
    /\ main.running
    /\ main.serving = "stopped"
    /\ Len(main.waits) = MAX_RETRIES - 1

(***************************************************************************)
(* The claims about the confirmation of a broadcast and its run.           *)
(***************************************************************************)
\* C21: no send of a broadcast is made unless an admin has pressed its
\* confirm button, and none is ever made once its cancel button was pressed
\* before the run began.
C21_NoSendAfterCancel ==
    (gong.running /\ gong.attempts # <<>>) =>
        /\ gong.confirmed_by \in ADMINS
        /\ ~gong.cancelled

\* C22: a run that has begun goes on to its end whatever else happens (a
\* press of the cancel button, a command of an admin, sends that raise):
\* given that each send and each wait returns, it makes the send to the
\* last recipient and its final report.
C22_RunCompletes ==
    gong.running ~>
        /\ gong.done
        /\ gong.attempts = gong.all_users
        /\ gong.last.op = "report"

\* A run during which the cancel button of another broadcast was pressed,
\* and in which a send raised, has made its report.
C22_Witness ==
    /\ gong.running /\ gong.done
    /\ gong.interrupted
    /\ gong.fail_count > 0
    /\ gong.attempts = gong.all_users

C28_NonAdminIgnored ==
    [][(/\ last' # last
        /\ last'.op \in AdminCommands \cup AdminCallbacks
        /\ last'.caller \notin ADMINS)
       => /\ last'.out.sent = <<>>
          /\ UNCHANGED <<users, banned, gong, trains, editing_users,
                         user_states, runs>>]_vars

\* C29: no exception leaves a handler of an admin action, whatever
\* raises inside it, the send of its except clause included.
C29_NothingEscapes ==
    last.op \in AdminCommands \cup AdminCallbacks => ~last.out.escaped

(***************************************************************************)
(* The claims about the validators, the users, the bans and the wizard.    *)
(***************************************************************************)
\* Exactly three ASCII digits.
ThreeDigits(route) ==
    /\ Len(route) = 3
    /\ \A i \in 1..3 : route[i] \in Digits

\* C31: a route typed by hand is accepted if and only if it is exactly
\* three ASCII digits; it is then stored and the step is Comment.  A route
\* that is empty or has a character that is no ASCII digit is answered
\* "digits only", a string of digits of another length "three-digit", and
\* neither is stored.  The skip label stores "-" and the step is Comment.
C31_RouteValidation ==
    \A t \in Threads :
        (th[t].passed /\ ~Running(t) /\ last.op = "text") =>
            LET route == Strip(last.text)
                u == th[t].user_id
                data == get_data(user_states, u)
                state == get_state(user_states, u)
            IN  /\ th[t].kind = "manual_route" =>
                      IF ThreeDigits(route)
                      THEN state = COMMENT /\ DictGet(data, "route", <<>>) = route
                      ELSE /\ state = ROUTE_MANUAL
                           /\ "route" \notin DOMAIN data
                           /\ th[t].tried =
                                 IF \A i \in 1..Len(route) : route[i] \in Digits
                                 THEN IF route = <<>> THEN {"digits_only"}
                                      ELSE {"three_digit"}
                                 ELSE {"digits_only"}
                /\ (th[t].kind = "route_choice" /\ route = SKIP_LABEL) =>
                      state = COMMENT /\ DictGet(data, "route", <<>>) = <<"-">>

\* The number a string of ASCII digits writes: the sum of its digits, each
\* weighted by its place.
RECURSIVE PlaceValue(_, _)
PlaceValue(digits, i) ==
    IF i > Len(digits) THEN 0
    ELSE (CHOOSE n \in 0..9 : ToString(n) = digits[i]) * 10 ^ (Len(digits) - i)
         + PlaceValue(digits, i + 1)

\* The first whitespace-separated token of a label, <<>> if it has none.
FirstToken(label) ==
    LET inked == {i \in 1..Len(label) : label[i] \notin Whitespace}
    IN  IF inked = {} THEN <<>>
        ELSE LET from == CHOOSE i \in inked : \A j \in inked : i <= j
                 to == CHOOSE i \in from..Len(label) :
                          /\ \A j \in from..i : j \in inked
                          /\ i + 1 \in 1..Len(label) => i + 1 \notin inked
             IN  SubSeq(label, from, to)

\* The minutes a label stands for: those of the integer its first token
\* writes, if it writes one, and 0 for the label of "now" and for every
\* other label.
MinutesOf(label) ==
    LET token == FirstToken(label)
        minus == token # <<>> /\ token[1] = "-"
        digits == IF minus THEN Tail(token) ELSE token
    IN  IF label = NOW_LABEL THEN 0
        ELSE IF digits = <<>> \/ \E i \in 1..Len(digits) : digits[i] \notin Digits
        THEN 0
        ELSE IF minus THEN 0 - PlaceValue(digits, 1)
        ELSE PlaceValue(digits, 1)

\* C32: whatever the label of the time button pressed at the step Time,
\* the handler stores a time and moves on: the clock of the press less the
\* minutes the label stands for, which are 0 for the label of "now", for
\* the empty label and for every label whose first token is no integer.
C32_TimeLabel ==
    \A t \in Threads :
        (/\ th[t].kind = "select_time" /\ last.op = "time"
         /\ th[t].passed /\ ~Running(t)) =>
            LET data == get_data(user_states, th[t].user_id)
            IN  /\ "time" \in DOMAIN data
                /\ data.time = real_time(last.at, MinutesOf(last.label))
                /\ get_state(user_states, th[t].user_id) = ROUTE_CHOICE

\* A label of several words whose first is an integer was handled after
\* the clock had moved.
C32_Witness ==
    \E t \in Threads :
        /\ th[t].kind = "select_time" /\ last.op = "time"
        /\ th[t].passed /\ ~Running(t)
        /\ last.label = <<"5", " ", "m">>
        /\ last.at > 0
        /\ get_data(user_states, th[t].user_id).time = real_time(last.at, 5)

\* C33: a /start of a user who has a User record may change the handle and
\* the display name of the record, but leaves the creation timestamp (and
\* the id, the key of the table) as it was, and the user keeps one record.
C33_StartKeepsCreation ==
    [][\A id \in DOMAIN users :
          /\ id \in DOMAIN users'
          /\ users'[id].created_at = users[id].created_at]_vars

\* C34: the ban table never has two records of one user; after a ban of a
\* user, banned before or not, the user has the one record with the reason
\* of that ban; after an unban the user has no record and is_banned is
\* false; and an unban of a user who has no record changes nothing.
C34_OneBanRecord ==
    [][/\ \A r1 \in banned', r2 \in banned' :
             r1.user_id = r2.user_id => r1 = r2
       /\ \A id \in BanIds, reason \in Reasons \cup {BUTTON_REASON} :
             DbBanUser(id, reason) =>
                 {row \in banned' : row.user_id = id}
                     = {[user_id |-> id, reason |-> reason]}
       /\ \A id \in BanIds :
             DbUnbanUser(id) =>
                 /\ ~is_banned(banned', id)
                 /\ ~is_banned(banned, id) => banned' = banned]_vars

\* User 1, banned without a reason, has been banned again for spam and has
\* the one record that names spam.
C34_Witness ==
    /\ last.op = "ban_user"
    /\ last.user_id = 1
    /\ last.before = {[user_id |-> 1, reason |-> NO_REASON]}
    /\ banned = {[user_id |-> 1, reason |-> "spam"]}

\* User 1, who was banned, has been unbanned and has no record.
C34_Unbanned ==
    /\ last.op = "unban_user"
    /\ last.user_id = 1
    /\ last.before # {}
    /\ ~is_banned(banned, 1)

\* C35: a press of a wizard button that is checked while the step of the
\* user is not the step of the button (another step, or no record) is
\* rejected: the handler does nothing but answer "start over", and no step
\* of it changes a conversation record or publishes a report.
C35_StalePressRejected ==
    [][\A t \in Threads :
          (/\ Running(t)
           /\ th[t].kind \in CallbackKinds
           /\ ~th[t].passed
           /\ th'[t] # th[t]) =>
              /\ user_states' = user_states
              /\ delivered' = delivered
              /\ IF At(t, "check")
                 THEN get_state(user_states, th[t].user_id) # NextOp(t).expected
                          => /\ th'[t].prog = <<Send("start_over")>>
                             /\ ~th'[t].passed
                 ELSE /\ NextOp(t) = Send("start_over")
                      /\ th'[t].prog = <<>>
                      /\ ~th'[t].passed]_vars

\* A user at the step of the line has pressed a station button and has been
\* answered "start over".
C35_Witness ==
    \E t \in Threads :
        /\ th[t].kind = "select_station"
        /\ ~th[t].passed
        /\ ~Running(t)
        /\ "start_over" \in th[t].tried
        /\ get_state(user_states, th[t].user_id) = LINE

\* The entry of thread t has passed the ban check and has set the step.
Entered(t) ==
    /\ th[t].kind = "start_report"
    /\ th[t].passed
    /\ \A i \in 1..Len(th[t].prog) : th[t].prog[i].op \notin {"clear", "put_state"}

\* C36: an entry into the wizard by a user who is not banned, at whatever
\* step the user stands, discards the earlier run: when the entry sets the
\* step, the record has the step Line and none of the seven answers, and
\* for the rest of the entry the record, unless the sweep has deleted it,
\* stays so.
C36_EntryDiscardsRun ==
    [][\A t \in Threads :
          LET user_id == th[t].user_id
          IN  /\ (Entered(t)' /\ ~Entered(t)) =>
                     /\ user_id \in DOMAIN user_states'
                     /\ get_state(user_states', user_id) = LINE
              /\ Entered(t)' =>
                     \/ th'[t].user_id \notin DOMAIN user_states'
                     \/ /\ get_state(user_states', th'[t].user_id) = LINE
                        /\ DOMAIN get_data(user_states', th'[t].user_id)
                               \cap Required = {}]_vars

\* A user who had chosen the line and the car has entered the wizard again:
\* the record is at the step Line and holds neither answer.
C36_Witness ==
    \E t \in Threads :
        /\ Entered(t)
        /\ {"line", "train"} \subseteq DOMAIN th[t].snap
        /\ th[t].user_id \in DOMAIN user_states
        /\ get_state(user_states, th[t].user_id) = LINE
        /\ DOMAIN get_data(user_states, th[t].user_id) \cap Required = {}

\* C37: no report of a user is published while the user has a ban record:
\* the handler of a confirm press of a banned user, who may have been banned
\* after entering the wizard, delivers nothing to the channel.
C37_BannedNeverPublishes ==
    [][\A t \in Threads :
          (/\ At(t, "publish")
           /\ is_banned(banned, th[t].user_id)) =>
              delivered' = delivered]_vars

\* C38: for the broadcast shown at most one run is started, and when the
\* confirm callback is delivered twice, the handlers running one after the
\* other or side by side, no recipient is sent the text by two runs.
C38_OneRunPerConfirmation ==
    /\ Cardinality({d \in Deliveries : runs[d].st = "run"}) <= 1
    /\ \A id \in DOMAIN users :
          Cardinality({d \in Deliveries :
                          runs[d].st = "run" /\ id \in runs[d].received}) <= 1

\* C39: a run whose limiter is RateLimiter(N, P) makes no more than N sends
\* within any interval of P seconds, however long the sends take: when a
\* send is made, it and the sends made less than P seconds before it are
\* at most N.
C39_SlidingWindow ==
    \A d \in Deliveries :
        runs[d].st = "run" => Len(runs[d].window) <= GONG_RATE_LIMIT

\* The calls that raise before the first that returns, among the first n.
RECURSIVE Failures(_, _)
Failures(results, n) ==
    IF n = 0 THEN 0
    ELSE LET before == Failures(results, n - 1)
         IN  IF before = n - 1 /\ results[n].raised THEN n ELSE before

\* C40: retry_on_error(max_retries = R, delay = d) calls the function at
\* most R times, and again only after a call that raised; after the k-th
\* failed call, k < R, it waits d * 2^(k-1), and after the R-th it does not
\* wait; the value of the first call that returns is returned and no call
\* follows it; after R failed calls the exception of the last is raised.
C40_RetryBackoff ==
    last.op = "retry_on_error" =>
        LET R == last.max_retries
            out == last.out
            failed == Failures(last.results, R)
        IN  /\ out.calls <= R
            /\ out.calls = IF failed = R THEN R ELSE failed + 1
            /\ \A k \in 1..(out.calls - 1) : last.results[k].raised
            /\ Len(out.waits) = IF failed = R THEN R - 1 ELSE failed
            /\ \A k \in 1..Len(out.waits) :
                  out.waits[k] = last.delay * 2 ^ (k - 1)
            /\ out.raised = (failed = R)
            /\ ~out.raised => /\ ~last.results[out.calls].raised
                              /\ out.value = last.results[out.calls].value
            /\ out.raised => out.exception = last.results[R].exception

\* Three tries with delay 3 have failed, the last with ApiError: the waits
\* were 3 and 6 and ApiError has been raised.
C40_Witness ==
    /\ last.op = "retry_on_error"
    /\ last.max_retries = 3
    /\ last.out.raised
    /\ last.out.calls = 3
    /\ last.out.waits = <<3, 6>>
    /\ last.out.exception = "ApiError"
    /\ last.results[1].exception = "Timeout"

====
